---------------------------- MODULE Spec2Model ----------------------------
(***************************************************************************)
(* Verification model of nepali-datepicker: the conversion engine          *)
(* (src/src/lib/date-converter.ts), the formatter and parser               *)
(* (src/src/lib/date-formatter.ts), the picker components                 *)
(* (src/src/components/picker/calendar.tsx, date-range-picker) and the     *)
(* legacy popover (src/src/components/ui/popover.tsx).                     *)
(*                                                                         *)
(* The calendar data module '@/lib/nepali-date-data' (BS_CALENDAR_DATA,    *)
(* BS_REFERENCE, AD_REFERENCE, BS_MIN_YEAR, BS_MAX_YEAR) is imported by    *)
(* the converter but is not among the source files; it is modelled from    *)
(* the specification: one row of 12 month lengths in 29..32 per supported  *)
(* year, and an anchor pair denoting the same absolute day, the BS anchor  *)
(* being day 1 of month 1 of BS_MIN_YEAR.  The supported range is cut to   *)
(* NumYears years (BS_MIN_YEAR .. BS_MIN_YEAR + NumYears - 1) to keep the  *)
(* exploration finite; the documented range is 2000..2100.                 *)
(*                                                                         *)
(* JavaScript Date values are modelled by the ECMAScript day-number        *)
(* arithmetic (MakeDay, YearFromTime, MonthFromTime, DateFromTime), in     *)
(* whole days: every time value the converter builds is a midnight, so     *)
(* the division by 1000*60*60*24 is exact.  The host time zone is taken    *)
(* to be one in which every civil day has a local midnight, so that the    *)
(* local constructor new Date(y, m, d) reads back the normalised fields.   *)
(***************************************************************************)
EXTENDS Integers, Sequences, FiniteSets, TLC

VARIABLES
    pc,             \* "idle", a function's loop ("bsToAd", "adToBs"), "chain", "done"
    call,           \* the exported function the caller invoked first
    input,          \* its (year, month, day) arguments
    stage,          \* 1: the first call, 2: the inverse conversion chained on its result
    cur,            \* adYear/adMonth/adDay or bsYear/bsMonth/bsDay of the running loop
    remainingDays,  \* the loop's remainingDays
    totalDays,      \* the day offset the running loop started from
    first,          \* what the first call returned or threw
    second,         \* what the chained inverse call returned or threw
    cmpArgs,        \* operands handed to compareBsDates / isBsDateInRange
    cmpRes,         \* their results
    fmtCall,        \* the formatter/parser function called, with its arguments
    fmtResult,      \* the string it returned, or the error it threw
    parsed,         \* what parseBsDate returned: null or a NepaliDate
    props,          \* the props the mounted picker component was rendered with
    open,           \* the picker's open state (useState(false))
    value,          \* the value prop, as the parent keeps it from onChange
    viewDate,       \* the Calendar's viewDate state (year, month)
    today,          \* the BS date getTodayBs() returns
    lastEvent,      \* the last callback the component invoked on its parent
    popoverContext, \* the legacy popover's module-level variable popoverContext
    popovers,       \* the mounted legacy Popovers, in tree order
    composition     \* where the open states of the legacy Popovers are kept

convVars == <<pc, call, input, stage, cur, remainingDays, totalDays, first, second>>
cmpVars  == <<cmpArgs, cmpRes>>
fmtVars  == <<fmtCall, fmtResult, parsed>>
pickerVars == <<props, open, value, viewDate, today, lastEvent>>
legacyVars == <<popoverContext, popovers, composition>>
vars     == <<pc, call, input, stage, cur, remainingDays, totalDays, first, second,
              cmpArgs, cmpRes, fmtCall, fmtResult, parsed,
              props, open, value, viewDate, today, lastEvent,
              popoverContext, popovers, composition>>

---------------------------------------------------------------------------
(* Bounds *)

\* Number of BS years the calendar table covers in the model.
NumYears == 3

---------------------------------------------------------------------------
(* Value objects *)

YMD(y, m, d) == [year |-> y, month |-> m, day |-> d]

NoDate == YMD(0, 0, 0)

\* A JavaScript completion: a normal return or a thrown Error, by message kind.
Returned(date) == [status |-> "ok", date |-> date, num |-> 0, bool |-> FALSE]
ReturnedNum(n) == [status |-> "ok", date |-> NoDate, num |-> n, bool |-> FALSE]
ReturnedBool(b) == [status |-> "ok", date |-> NoDate, num |-> 0, bool |-> b]
Thrown(kind) == [status |-> kind, date |-> NoDate, num |-> 0, bool |-> FALSE]
Pending == [status |-> "pending", date |-> NoDate, num |-> 0, bool |-> FALSE]

\* An optional value: <<>> when absent (undefined or null, falsy), <<v>> when present.
Absent == <<>>
Present(date) == <<date>>
Truthy(opt) == opt # <<>>

\* No formatter or parser call has been made.
NoCall == [fn |-> "none", date |-> NoDate, present |-> FALSE, format |-> <<>>,
           language |-> "en", text |-> <<>>, num |-> 0]
NoString == [status |-> "pending", str |-> <<>>]
NotParsed == [status |-> "pending", date |-> NoDate]
FmtIdle == fmtCall = NoCall /\ fmtResult = NoString /\ parsed = NotParsed

\* No picker component is mounted.
NoProps == [component |-> "none", minDate |-> Absent, maxDate |-> Absent,
            closeOnSelect |-> TRUE, captionLayout |-> "buttons"]
NoValue == [from |-> Absent, to |-> Absent]
NoEvent == [action |-> "none", reported |-> Absent, blurs |-> 0, wasOpen |-> FALSE]
\* The context a Popover provides: its open flag, and its setOpen and triggerRef,
\* which are told apart by the Popover they belong to (0: no Popover).
Ctx(owner, isOpen) == [owner |-> owner, open |-> isOpen]

\* const PopoverContext = { open: false, setOpen: () => {}, triggerRef: ... }
PopoverContext == Ctx(0, FALSE)

\* No legacy Popover is mounted: let popoverContext = { ...PopoverContext }.
PopoversUnmounted ==
    popoverContext = PopoverContext /\ popovers = <<>> /\ composition = <<>>

PickerUnmounted ==
    /\ props = NoProps
    /\ open = FALSE
    /\ value = NoValue
    /\ viewDate = NoDate
    /\ today = NoDate
    /\ lastEvent = NoEvent

---------------------------------------------------------------------------
(* Calendar data module (nepali-date-data) *)

BS_MIN_YEAR == 2000

BS_MAX_YEAR == BS_MIN_YEAR + NumYears - 1

BS_REFERENCE == YMD(BS_MIN_YEAR, 1, 1)

AD_REFERENCE == YMD(1943, 4, 14)

\* Month lengths of four consecutive BS years, repeated over the supported range.
TableRows ==
    << <<30, 32, 31, 32, 31, 30, 30, 30, 29, 30, 29, 31>>,
       <<31, 31, 32, 31, 31, 31, 30, 29, 30, 29, 30, 30>>,
       <<31, 31, 32, 32, 31, 30, 30, 29, 30, 29, 30, 30>>,
       <<31, 32, 31, 32, 31, 30, 30, 30, 29, 29, 30, 31>> >>

\* BS_CALENDAR_DATA: Record<number, number[]>, keyed by the supported years only.
BS_CALENDAR_DATA ==
    [y \in BS_MIN_YEAR..BS_MAX_YEAR |-> TableRows[((y - BS_MIN_YEAR) % 4) + 1]]


---------------------------------------------------------------------------
(* JavaScript values the converter relies on *)

\* The value `undefined` (a missing table row, an array index out of range).
Undefined == [status |-> "undefined", date |-> NoDate, num |-> 0, bool |-> FALSE]

\* arr[idx] on a JavaScript array (0-based; undefined outside the array).
ArrayAt(arr, idx) ==
    IF idx + 1 \in DOMAIN arr THEN ReturnedNum(arr[idx + 1]) ELSE Undefined

\* BS_CALENDAR_DATA[year]: a row, or undefined for a year that is no key.
HasRow(year) == year \in DOMAIN BS_CALENDAR_DATA

RECURSIVE SumFrom(_, _)
\* monthDays.reduce((sum, days) => sum + days, 0), from index i on.
SumFrom(arr, i) ==
    IF i > Len(arr) THEN 0 ELSE arr[i] + SumFrom(arr, i + 1)

---------------------------------------------------------------------------
(* Calendar table lookups and the validator *)

getTotalDaysInBsYear(year) ==
    IF ~HasRow(year)
        THEN Thrown("UnsupportedYear")
        ELSE ReturnedNum(SumFrom(BS_CALENDAR_DATA[year], 1))

\* Mutant: the month checked before the year.
getDaysInBsMonth_MonthFirst(year, month) ==
    IF month < 1 \/ month > 12
        THEN Thrown("InvalidMonth")
        ELSE IF ~HasRow(year)
            THEN Thrown("UnsupportedYear")
            ELSE ArrayAt(BS_CALENDAR_DATA[year], month - 1)

getDaysInBsMonth(year, month) ==
    IF ~HasRow(year)
        THEN Thrown("UnsupportedYear")
        ELSE IF month < 1 \/ month > 12
            THEN Thrown("InvalidMonth")
            ELSE ArrayAt(BS_CALENDAR_DATA[year], month - 1)

\* Mutant: the day's upper limit dropped.
isValidBsDate_NoUpper(year, month, day) ==
    IF year < BS_MIN_YEAR \/ year > BS_MAX_YEAR THEN FALSE
    ELSE IF month < 1 \/ month > 12 THEN FALSE
    ELSE day >= 1

\* Mutant: day 0 accepted.
isValidBsDate_FromZero(year, month, day) ==
    IF year < BS_MIN_YEAR \/ year > BS_MAX_YEAR THEN FALSE
    ELSE IF month < 1 \/ month > 12 THEN FALSE
    ELSE LET maxDays == getDaysInBsMonth(year, month) IN
         IF maxDays.status = "ok"
             THEN day >= 0 /\ day <= maxDays.num
             ELSE FALSE

isValidBsDate(year, month, day) ==
    IF year < BS_MIN_YEAR \/ year > BS_MAX_YEAR THEN FALSE
    ELSE IF month < 1 \/ month > 12 THEN FALSE
    ELSE LET maxDays == getDaysInBsMonth(year, month) IN
         IF maxDays.status = "ok"
             THEN day >= 1 /\ day <= maxDays.num
             ELSE FALSE   \* catch { return false }; comparisons with undefined are false

---------------------------------------------------------------------------
(* Day counter *)

RECURSIVE SumYears(_, _)
\* for (let y = ...; y < year; y++) totalDays += getTotalDaysInBsYear(y)
SumYears(y, year) ==
    IF y >= year THEN ReturnedNum(0)
    ELSE LET t == getTotalDaysInBsYear(y) IN
         IF t.status # "ok" THEN t
         ELSE LET rest == SumYears(y + 1, year) IN
              IF rest.status # "ok" THEN rest ELSE ReturnedNum(t.num + rest.num)

RECURSIVE SumMonths(_, _, _)
\* for (let m = ...; m < month - 1; m++) totalDays += monthDays[m]
SumMonths(year, m, month) ==
    IF m >= month - 1 THEN ReturnedNum(0)
    ELSE IF ~HasRow(year) THEN Thrown("TypeError")
    ELSE LET len == ArrayAt(BS_CALENDAR_DATA[year], m) IN
         IF len.status # "ok" THEN Thrown("NaN")
         ELSE LET rest == SumMonths(year, m + 1, month) IN
              IF rest.status # "ok" THEN rest ELSE ReturnedNum(len.num + rest.num)

\* Mutant: the whole months before the target month left out.
countDaysFromBsReference_SkipMonths(year, month, day) ==
    LET years == SumYears(BS_REFERENCE.year, year)
    IN  IF years.status # "ok" THEN years
        ELSE ReturnedNum(years.num + (day - 1))

\* Mutant: the day counted from 0 instead of from 1.
countDaysFromBsReference_NoOffset(year, month, day) ==
    LET years == SumYears(BS_REFERENCE.year, year)
        months == SumMonths(year, 0, month)
    IN  IF years.status # "ok" THEN years
        ELSE IF months.status # "ok" THEN months
        ELSE ReturnedNum(years.num + months.num + day)

countDaysFromBsReference(year, month, day) ==
    LET years == SumYears(BS_REFERENCE.year, year)
        months == SumMonths(year, 0, month)
    IN  IF years.status # "ok" THEN years
        ELSE IF months.status # "ok" THEN months
        ELSE ReturnedNum(years.num + months.num + (day - 1))

---------------------------------------------------------------------------
(* Gregorian month lengths *)

\* Mutant: every year a leap year.
isLeapYear_Always(year) == TRUE

\* Mutant: the leap-year rule dropped.
isLeapYear_Never(year) == FALSE

isLeapYear(year) ==
    (year % 4 = 0 /\ year % 100 # 0) \/ year % 400 = 0

\* Mutant: February has 28 days in every year.
getDaysInAdMonth_NoLeap(year, month) ==
    LET daysInMonth == <<31, 28, 31, 30, 31, 30, 31, 31, 30, 31, 30, 31>> IN
    daysInMonth[month]

getDaysInAdMonth(year, month) ==
    LET daysInMonth == <<31, 28, 31, 30, 31, 30, 31, 31, 30, 31, 30, 31>> IN
    IF month = 2 /\ isLeapYear(year) THEN 29 ELSE daysInMonth[month]

---------------------------------------------------------------------------
(* The JavaScript Date object, in whole days since 1970-01-01 *)

\* ECMAScript DayFromYear(y).
DayFromYear(y) ==
    365 * (y - 1970) + ((y - 1969) \div 4) - ((y - 1901) \div 100)
        + ((y - 1601) \div 400)

\* ECMAScript DaysInYear(y).
DaysInYear(y) ==
    IF y % 4 # 0 THEN 365
    ELSE IF y % 100 # 0 THEN 366
    ELSE IF y % 400 # 0 THEN 365 ELSE 366

\* First day (0-based, within the year) of month index mn, mn in 0..12.
MonthStart(y, mn) ==
    LET starts == <<0, 31, 59, 90, 120, 151, 181, 212, 243, 273, 304, 334, 365>> IN
    starts[mn + 1] + (IF mn >= 2 /\ DaysInYear(y) = 366 THEN 1 ELSE 0)

\* ECMAScript MakeDay(year, month, date): month and date outside their range carry over.
MakeDay(year, month, date) ==
    LET ym == year + (month \div 12)
        mn == month % 12
    IN  DayFromYear(ym) + MonthStart(ym, mn) + date - 1

\* ECMAScript YearFromTime.
YearFromDay(t) ==
    LET est == 1970 + (t \div 365) IN
    CHOOSE y \in (est - 3)..(est + 3) : DayFromYear(y) <= t /\ t < DayFromYear(y + 1)

\* ECMAScript MonthFromTime (0-based).
MonthFromDay(t) ==
    LET y == YearFromDay(t)
        diy == t - DayFromYear(y)
    IN  CHOOSE mn \in 0..11 : MonthStart(y, mn) <= diy /\ diy < MonthStart(y, mn + 1)

\* ECMAScript DateFromTime.
DateFromDay(t) ==
    LET y == YearFromDay(t) IN
    t - DayFromYear(y) - MonthStart(y, MonthFromDay(t)) + 1

\* The Date constructor and Date.UTC read a year argument of 0..99 as 1900 + year.
FullYearArg(year) ==
    IF 0 <= year /\ year <= 99 THEN 1900 + year ELSE year

\* new Date(year, monthIndex, day): the local midnight of the normalised civil day.
NewDate(year, monthIndex, day) == MakeDay(FullYearArg(year), monthIndex, day)

getFullYear(date) == YearFromDay(date)
getMonth(date) == MonthFromDay(date)
getDate(date) == DateFromDay(date)

\* Date.prototype.getDay: ECMAScript WeekDay, 0 is Sunday; day 0 was a Thursday.
getDay(date) == (date + 4) % 7

\* Date.UTC(year, monthIndex, day) / (1000 * 60 * 60 * 24).
DateUTC(year, monthIndex, day) == MakeDay(FullYearArg(year), monthIndex, day)

---------------------------------------------------------------------------
(* Epoch converter: entry checks and one iteration of each stepping loop *)

\* Mutant: the range check made before the Date round-trip check.
adToBsDiffDays_RangeFirst(year, month, day) ==
    LET adDate == NewDate(year, month - 1, day)
        diffDays == DateUTC(year, month - 1, day)
                        - DateUTC(AD_REFERENCE.year, AD_REFERENCE.month - 1, AD_REFERENCE.day)
    IN  IF diffDays < 0 THEN Thrown("BeforeRange")
        ELSE IF getFullYear(adDate) # year \/ getMonth(adDate) # month - 1
                    \/ getDate(adDate) # day
            THEN Thrown("InvalidAdDate")
            ELSE ReturnedNum(diffDays)

\* adToBs up to the loop: the Date round-trip check, then the UTC day difference.
adToBsDiffDays(year, month, day) ==
    LET adDate == NewDate(year, month - 1, day) IN
    IF getFullYear(adDate) # year \/ getMonth(adDate) # month - 1 \/ getDate(adDate) # day
        THEN Thrown("InvalidAdDate")
        ELSE LET refDateUTC == DateUTC(AD_REFERENCE.year, AD_REFERENCE.month - 1,
                                      AD_REFERENCE.day)
                 targetDateUTC == DateUTC(year, month - 1, day)
                 diffDays == targetDateUTC - refDateUTC
             IN  IF diffDays < 0 THEN Thrown("BeforeRange") ELSE ReturnedNum(diffDays)

\* Mutant: the step to the next month takes only the days left in the month.
bsToAdStep_DayShort(c, remaining) ==
    LET daysInCurrentMonth == getDaysInAdMonth(c.year, c.month)
        daysLeftInMonth == daysInCurrentMonth - c.day
    IN  IF remaining <= daysLeftInMonth
            THEN [status |-> "ok", cur |-> YMD(c.year, c.month, c.day + remaining),
                  remaining |-> 0]
            ELSE [status |-> "ok",
                  cur |-> IF c.month + 1 > 12 THEN YMD(c.year + 1, 1, 1)
                                              ELSE YMD(c.year, c.month + 1, 1),
                  remaining |-> remaining - daysLeftInMonth]

\* One iteration of bsToAd's while loop, from (adYear, adMonth, adDay) = c.
bsToAdStep(c, remaining) ==
    LET daysInCurrentMonth == getDaysInAdMonth(c.year, c.month)
        daysLeftInMonth == daysInCurrentMonth - c.day
    IN  IF remaining <= daysLeftInMonth
            THEN [status |-> "ok", cur |-> YMD(c.year, c.month, c.day + remaining),
                  remaining |-> 0]
            ELSE [status |-> "ok",
                  cur |-> IF c.month + 1 > 12 THEN YMD(c.year + 1, 1, 1)
                                              ELSE YMD(c.year, c.month + 1, 1),
                  remaining |-> remaining - (daysLeftInMonth + 1)]

\* Mutant: the year rolls over without the BS_MAX_YEAR check.
adToBsStep_NoOverflowCheck(c, remaining) ==
    LET daysInCurrentMonth == getDaysInBsMonth(c.year, c.month) IN
    IF daysInCurrentMonth.status # "ok"
        THEN [status |-> daysInCurrentMonth.status, cur |-> c, remaining |-> remaining]
    ELSE LET daysLeftInMonth == daysInCurrentMonth.num - c.day IN
         IF remaining <= daysLeftInMonth
             THEN [status |-> "ok", cur |-> YMD(c.year, c.month, c.day + remaining),
                   remaining |-> 0]
             ELSE [status |-> "ok",
                   cur |-> IF c.month + 1 > 12 THEN YMD(c.year + 1, 1, 1)
                                               ELSE YMD(c.year, c.month + 1, 1),
                   remaining |-> remaining - (daysLeftInMonth + 1)]

\* One iteration of adToBs's while loop, from (bsYear, bsMonth, bsDay) = c.
adToBsStep(c, remaining) ==
    LET daysInCurrentMonth == getDaysInBsMonth(c.year, c.month) IN
    IF daysInCurrentMonth.status # "ok"
        THEN [status |-> daysInCurrentMonth.status, cur |-> c, remaining |-> remaining]
    ELSE LET daysLeftInMonth == daysInCurrentMonth.num - c.day IN
         IF remaining <= daysLeftInMonth
             THEN [status |-> "ok", cur |-> YMD(c.year, c.month, c.day + remaining),
                   remaining |-> 0]
         ELSE IF c.month + 1 > 12
             THEN IF c.year + 1 > BS_MAX_YEAR
                      THEN [status |-> "BsYearOverflow", cur |-> YMD(c.year + 1, 1, 1),
                            remaining |-> remaining - (daysLeftInMonth + 1)]
                      ELSE [status |-> "ok", cur |-> YMD(c.year + 1, 1, 1),
                            remaining |-> remaining - (daysLeftInMonth + 1)]
             ELSE [status |-> "ok", cur |-> YMD(c.year, c.month + 1, 1),
                   remaining |-> remaining - (daysLeftInMonth + 1)]

---------------------------------------------------------------------------
(* Inputs *)

BsInputs ==
    { YMD(y, m, d) : y \in (BS_MIN_YEAR - 1)..(BS_MAX_YEAR + 1), m \in 0..13, d \in 0..33 }

AdInputs ==
    { YMD(y, m, d) : y \in {99} \cup ((AD_REFERENCE.year - 1)..(AD_REFERENCE.year + NumYears + 1)),
                     m \in 0..13, d \in 0..32 }

MonthInputs ==
    { YMD(y, m, 0) : y \in (BS_MIN_YEAR - 2)..(BS_MAX_YEAR + 2), m \in (0 - 2)..15 }

---------------------------------------------------------------------------
(* Calls *)

\* A call at stage stg completes with outcome o (a return value or a thrown error).
Complete(stg, o) ==
    /\ pc' = IF stg = 1 /\ o.status = "ok" /\ call \in {"bsToAd", "adToBs"}
                 THEN "chain" ELSE "done"
    /\ IF stg = 1 THEN first' = o /\ UNCHANGED second
                  ELSE second' = o /\ UNCHANGED first

\* bsToAd(year, month, day) up to its loop.
EnterBsToAd(stg, year, month, day) ==
    IF ~isValidBsDate(year, month, day)
        THEN Complete(stg, Thrown("InvalidBsDate"))
                /\ UNCHANGED <<cur, remainingDays, totalDays>>
        ELSE LET total == countDaysFromBsReference(year, month, day) IN
             IF total.status # "ok"
                 THEN Complete(stg, total) /\ UNCHANGED <<cur, remainingDays, totalDays>>
                 ELSE /\ pc' = "bsToAd"
                      /\ cur' = AD_REFERENCE
                      /\ remainingDays' = total.num
                      /\ totalDays' = total.num
                      /\ UNCHANGED <<first, second>>

\* adToBs(year, month, day) up to its loop.
EnterAdToBs(stg, year, month, day) ==
    LET diff == adToBsDiffDays(year, month, day) IN
    IF diff.status # "ok"
        THEN Complete(stg, diff) /\ UNCHANGED <<cur, remainingDays, totalDays>>
        ELSE /\ pc' = "adToBs"
             /\ cur' = BS_REFERENCE
             /\ remainingDays' = diff.num
             /\ totalDays' = diff.num
             /\ UNCHANGED <<first, second>>

CallBsToAd ==
    /\ pc = "idle"
    /\ \E d \in BsInputs :
          /\ call' = "bsToAd" /\ input' = d /\ stage' = 1
          /\ EnterBsToAd(1, d.year, d.month, d.day)
    /\ UNCHANGED <<cmpVars, fmtVars, pickerVars, legacyVars>>

CallAdToBs ==
    /\ pc = "idle"
    /\ \E d \in AdInputs :
          /\ call' = "adToBs" /\ input' = d /\ stage' = 1
          /\ EnterAdToBs(1, d.year, d.month, d.day)
    /\ UNCHANGED <<cmpVars, fmtVars, pickerVars, legacyVars>>

\* while (remainingDays > 0) { ... } of bsToAd: one iteration.
BsToAdIterate ==
    /\ pc = "bsToAd"
    /\ remainingDays > 0
    /\ LET s == bsToAdStep(cur, remainingDays) IN
          /\ cur' = s.cur
          /\ remainingDays' = s.remaining
    /\ UNCHANGED <<pc, call, input, stage, totalDays, first, second, cmpVars, fmtVars, pickerVars, legacyVars>>

\* return { year: adYear, month: adMonth, day: adDay }
BsToAdReturn ==
    /\ pc = "bsToAd"
    /\ ~(remainingDays > 0)
    /\ Complete(stage, Returned(cur))
    /\ UNCHANGED <<call, input, stage, cur, remainingDays, totalDays, cmpVars, fmtVars, pickerVars, legacyVars>>

\* while (remainingDays > 0) { ... } of adToBs: one iteration, which may throw.
AdToBsIterate ==
    /\ pc = "adToBs"
    /\ remainingDays > 0
    /\ LET s == adToBsStep(cur, remainingDays) IN
          /\ cur' = s.cur
          /\ remainingDays' = s.remaining
          /\ IF s.status = "ok"
                 THEN UNCHANGED <<pc, first, second>>
                 ELSE Complete(stage, Thrown(s.status))
    /\ UNCHANGED <<call, input, stage, totalDays, cmpVars, fmtVars, pickerVars, legacyVars>>

\* return { year: bsYear, month: bsMonth, day: bsDay }
AdToBsReturn ==
    /\ pc = "adToBs"
    /\ ~(remainingDays > 0)
    /\ Complete(stage, Returned(cur))
    /\ UNCHANGED <<call, input, stage, cur, remainingDays, totalDays, cmpVars, fmtVars, pickerVars, legacyVars>>

\* The caller feeds the first conversion's result to the inverse conversion.
ChainInverse ==
    /\ pc = "chain"
    /\ stage' = 2
    /\ IF call = "bsToAd"
           THEN EnterAdToBs(2, first.date.year, first.date.month, first.date.day)
           ELSE EnterBsToAd(2, first.date.year, first.date.month, first.date.day)
    /\ UNCHANGED <<call, input, cmpVars, fmtVars, pickerVars, legacyVars>>

\* The day after d in the calendar table (the year after the table has no row).
NextBsDay(d) ==
    IF d.day < BS_CALENDAR_DATA[d.year][d.month] THEN YMD(d.year, d.month, d.day + 1)
    ELSE IF d.month < 12 THEN YMD(d.year, d.month + 1, 1)
    ELSE YMD(d.year + 1, 1, 1)

\* The caller converts the day after the date it has just converted.
ChainSuccessor ==
    /\ pc = "chain"
    /\ call = "bsToAd"
    /\ call' = "bsToAdNext"
    /\ stage' = 2
    /\ LET n == NextBsDay(input) IN EnterBsToAd(2, n.year, n.month, n.day)
    /\ UNCHANGED <<input, cmpVars, fmtVars, pickerVars, legacyVars>>

\* The month after month (d.year, d.month); the day field stays 0.
NextBsMonth(d) ==
    IF d.month < 12 THEN YMD(d.year, d.month + 1, 0) ELSE YMD(d.year + 1, 1, 0)

\* getFirstDayOfBsMonth(year, month): const adDate = bsToAd(year, month, 1).
CallGetFirstDayOfBsMonth ==
    /\ pc = "idle"
    /\ \E d \in MonthInputs :
          /\ call' = "getFirstDayOfBsMonth" /\ input' = d /\ stage' = 1
          /\ EnterBsToAd(1, d.year, d.month, 1)
    /\ UNCHANGED <<cmpVars, fmtVars, pickerVars, legacyVars>>

\* getFirstDayOfBsMonth after bsToAd has returned adDate:
\* return new Date(adDate.year, adDate.month - 1, adDate.day).getDay()
GetFirstDayReturn ==
    /\ pc = "done"
    /\ call = "getFirstDayOfBsMonth"
    /\ LET adDate == IF stage = 1 THEN first ELSE second
           weekday == ReturnedNum(getDay(NewDate(adDate.date.year, adDate.date.month - 1,
                                                 adDate.date.day)))
       IN  /\ adDate.status = "ok" /\ adDate.date # NoDate
           /\ IF stage = 1 THEN first' = weekday /\ UNCHANGED second
                            ELSE second' = weekday /\ UNCHANGED first
    /\ UNCHANGED <<pc, call, input, stage, cur, remainingDays, totalDays,
                   cmpVars, fmtVars, pickerVars, legacyVars>>

\* The caller asks for the first weekday of the month after the one it has
\* just asked for (the grid of the next month).
ChainNextMonth ==
    /\ pc = "done"
    /\ call = "getFirstDayOfBsMonth"
    /\ stage = 1
    /\ first.status = "ok" /\ first.date = NoDate
    /\ stage' = 2
    /\ LET n == NextBsMonth(input) IN EnterBsToAd(2, n.year, n.month, 1)
    /\ UNCHANGED <<call, input, cmpVars, fmtVars, pickerVars, legacyVars>>

CallIsValidBsDate ==
    /\ pc = "idle"
    /\ \E d \in BsInputs :
          /\ call' = "isValidBsDate" /\ input' = d /\ stage' = 1
          /\ Complete(1, ReturnedBool(isValidBsDate(d.year, d.month, d.day)))
    /\ UNCHANGED <<cur, remainingDays, totalDays, cmpVars, fmtVars, pickerVars, legacyVars>>

\* getDaysInBsMonth(year, month) takes no day: the input's day field stays 0.
CallGetDaysInBsMonth ==
    /\ pc = "idle"
    /\ \E d \in MonthInputs :
          /\ call' = "getDaysInBsMonth" /\ input' = d /\ stage' = 1
          /\ Complete(1, getDaysInBsMonth(d.year, d.month))
    /\ UNCHANGED <<cur, remainingDays, totalDays, cmpVars, fmtVars, pickerVars, legacyVars>>

---------------------------------------------------------------------------
(* Specification of the converter *)

NoArgs == [a |-> NoDate, b |-> NoDate, c |-> NoDate, hasMin |-> FALSE, hasMax |-> FALSE]

NoRes == [ab |-> 0, ba |-> 0, bc |-> 0, ac |-> 0, inRange |-> FALSE, applied |-> "none"]

Init ==
    /\ pc = "idle"
    /\ call = "none"
    /\ input = NoDate
    /\ stage = 1
    /\ cur = NoDate
    /\ remainingDays = 0
    /\ totalDays = 0
    /\ first = Pending
    /\ second = Pending
    /\ cmpArgs = NoArgs
    /\ cmpRes = NoRes
    /\ FmtIdle
    /\ PopoversUnmounted
    /\ PickerUnmounted

Next ==
    \/ CallBsToAd
    \/ CallAdToBs
    \/ CallIsValidBsDate
    \/ CallGetDaysInBsMonth
    \/ BsToAdIterate
    \/ BsToAdReturn
    \/ AdToBsIterate
    \/ AdToBsReturn
    \/ ChainInverse
    \/ ChainSuccessor
    \/ CallGetFirstDayOfBsMonth
    \/ GetFirstDayReturn
    \/ ChainNextMonth

Spec == Init /\ [][Next]_vars

---------------------------------------------------------------------------
(* Comparator and range checker *)

\* Mutant: the day compared before the month.
compareBsDates_DayFirst(a, b) ==
    IF a.year # b.year THEN (IF a.year < b.year THEN -1 ELSE 1)
    ELSE IF a.day # b.day THEN (IF a.day < b.day THEN -1 ELSE 1)
    ELSE IF a.month # b.month THEN (IF a.month < b.month THEN -1 ELSE 1)
    ELSE 0

compareBsDates(a, b) ==
    IF a.year # b.year THEN (IF a.year < b.year THEN -1 ELSE 1)
    ELSE IF a.month # b.month THEN (IF a.month < b.month THEN -1 ELSE 1)
    ELSE IF a.day # b.day THEN (IF a.day < b.day THEN -1 ELSE 1)
    ELSE 0

\* Mutant: the upper bound made exclusive.
isBsDateInRange_ExclusiveMax(date, minDate, maxDate) ==
    IF Truthy(minDate) /\ compareBsDates(date, minDate[1]) < 0 THEN FALSE
    ELSE IF Truthy(maxDate) /\ compareBsDates(date, maxDate[1]) >= 0 THEN FALSE
    ELSE TRUE

isBsDateInRange(date, minDate, maxDate) ==
    IF Truthy(minDate) /\ compareBsDates(date, minDate[1]) < 0 THEN FALSE
    ELSE IF Truthy(maxDate) /\ compareBsDates(date, maxDate[1]) > 0 THEN FALSE
    ELSE TRUE

\* NepaliDate objects handed to the comparator (plain structures, not validated).
CmpDates ==
    { YMD(y, m, d) : y \in {BS_MIN_YEAR, BS_MIN_YEAR + 1}, m \in {1, 12}, d \in {1, 2, 32} }

\* compareBsDates applied to each pair of the three operands.
ApplyCompare ==
    /\ cmpRes.applied = "none"
    /\ cmpArgs' = [cmpArgs EXCEPT !.hasMin = FALSE, !.hasMax = FALSE]
    /\ cmpRes' = [cmpRes EXCEPT
                     !.ab = compareBsDates(cmpArgs.a, cmpArgs.b),
                     !.ba = compareBsDates(cmpArgs.b, cmpArgs.a),
                     !.bc = compareBsDates(cmpArgs.b, cmpArgs.c),
                     !.ac = compareBsDates(cmpArgs.a, cmpArgs.c),
                     !.applied = "compare"]
    /\ UNCHANGED <<convVars, fmtVars, pickerVars, legacyVars>>

\* isBsDateInRange(a, b?, c?): each bound may be passed or left out.
ApplyInRange ==
    /\ cmpRes.applied = "none"
    /\ \E hasMin \in BOOLEAN, hasMax \in BOOLEAN :
          /\ cmpArgs' = [cmpArgs EXCEPT !.hasMin = hasMin, !.hasMax = hasMax]
          /\ cmpRes' = [cmpRes EXCEPT
                           !.inRange = isBsDateInRange(
                               cmpArgs.a,
                               IF hasMin THEN Present(cmpArgs.b) ELSE Absent,
                               IF hasMax THEN Present(cmpArgs.c) ELSE Absent),
                           !.applied = "inRange"]
    /\ UNCHANGED <<convVars, fmtVars, pickerVars, legacyVars>>

InitCmp ==
    /\ pc = "idle"
    /\ call = "none"
    /\ input = NoDate
    /\ stage = 1
    /\ cur = NoDate
    /\ remainingDays = 0
    /\ totalDays = 0
    /\ first = Pending
    /\ second = Pending
    /\ \E a \in CmpDates, b \in CmpDates, c \in CmpDates :
          cmpArgs = [a |-> a, b |-> b, c |-> c, hasMin |-> FALSE, hasMax |-> FALSE]
    /\ cmpRes = NoRes
    /\ FmtIdle
    /\ PopoversUnmounted
    /\ PickerUnmounted

NextCmp ==
    \/ ApplyCompare
    \/ ApplyInRange

SpecCmp == InitCmp /\ [][NextCmp]_vars

---------------------------------------------------------------------------
(* Vocabulary of the properties, stated independently of the converter *)

\* d satisfies the NepaliDate invariants of the calendar table.
ValidBs(d) ==
    /\ d.year >= BS_MIN_YEAR /\ d.year <= BS_MAX_YEAR
    /\ d.month >= 1 /\ d.month <= 12
    /\ d.day >= 1 /\ d.day <= BS_CALENDAR_DATA[d.year][d.month]

\* Length of a Gregorian month by the civil rule.
GregorianLength(y, m) ==
    CASE m \in {4, 6, 9, 11} -> 30
      [] m = 2 -> IF (y % 4 = 0 /\ y % 100 # 0) \/ y % 400 = 0 THEN 29 ELSE 28
      [] OTHER -> 31

\* d is a real day of the Gregorian calendar.
RealGregorian(d) ==
    /\ d.month >= 1 /\ d.month <= 12
    /\ d.day >= 1 /\ d.day <= GregorianLength(d.year, d.month)

\* Strict lexicographic order on (year, month, day).
Earlier(a, b) ==
    \/ a.year < b.year
    \/ a.year = b.year /\ a.month < b.month
    \/ a.year = b.year /\ a.month = b.month /\ a.day < b.day

RECURSIVE GregorianDaysBefore(_, _)
\* Days from 1 January of AD_REFERENCE's year to the first day of month m of year y.
GregorianDaysBefore(y, m) ==
    IF y = AD_REFERENCE.year /\ m = 1 THEN 0
    ELSE IF m = 1 THEN GregorianDaysBefore(y - 1, 12) + GregorianLength(y - 1, 12)
    ELSE GregorianDaysBefore(y, m - 1) + GregorianLength(y, m - 1)

\* Days from AD_REFERENCE to the real Gregorian day d, for d on or after AD_REFERENCE.
AdOffset(d) ==
    (GregorianDaysBefore(d.year, d.month) + d.day)
        - (GregorianDaysBefore(AD_REFERENCE.year, AD_REFERENCE.month) + AD_REFERENCE.day)

RECURSIVE TableDays(_)
\* Days in the calendar table from BS_MIN_YEAR through year y.
TableDays(y) ==
    IF y < BS_MIN_YEAR THEN 0
    ELSE TableDays(y - 1) + SumFrom(BS_CALENDAR_DATA[y], 1)

FirstBsDay == YMD(BS_MIN_YEAR, 1, 1)

LastBsDay == YMD(BS_MAX_YEAR, 12, BS_CALENDAR_DATA[BS_MAX_YEAR][12])

\* d is a real Gregorian day from AD_REFERENCE to the AD day of LastBsDay.
InSupportedSpan(d) ==
    /\ RealGregorian(d)
    /\ ~Earlier(d, AD_REFERENCE)
    /\ AdOffset(d) <= TableDays(BS_MAX_YEAR) - 1

\* d is a real Gregorian day after the AD day of LastBsDay.
AfterSupportedSpan(d) ==
    /\ RealGregorian(d)
    /\ ~Earlier(d, AD_REFERENCE)
    /\ AdOffset(d) >= TableDays(BS_MAX_YEAR)

\* The first call has completed (returned or thrown).
FirstCompleted == pc \in {"chain", "done"} \/ stage = 2

---------------------------------------------------------------------------
(* Properties *)

\* C1: for every valid BS date, adToBs applied to the result of bsToAd returns
\* exactly that date: neither call fails and no field is off by one.
RoundTripFromBs ==
    (call = "bsToAd" /\ ValidBs(input) /\ pc = "done")
        => (first.status = "ok" /\ second = Returned(input))

\* The round trip from the last day of BS_MAX_YEAR has completed.
RoundTripFromBsWitness ==
    /\ call = "bsToAd" /\ input = LastBsDay /\ pc = "done"
    /\ stage = 2 /\ second = Returned(LastBsDay)

\* C2: for every real Gregorian date from AD_REFERENCE to the AD day of the last
\* day of BS_MAX_YEAR, adToBs succeeds and bsToAd of its result is that date.
RoundTripFromAd ==
    (call = "adToBs" /\ InSupportedSpan(input) /\ pc = "done")
        => (first.status = "ok" /\ second = Returned(input))

\* The round trip from the AD day of the last day of BS_MAX_YEAR has completed.
RoundTripFromAdWitness ==
    /\ call = "adToBs" /\ pc = "done" /\ stage = 2
    /\ first = Returned(LastBsDay) /\ second = Returned(input)

\* C3: bsToAd throws the invalid-BS-date error for exactly the triples that are not
\* valid BS dates, and returns a date for every valid one; an invalid triple never
\* reaches the stepping loop.
BsToAdFailsIffInvalid ==
    /\ (call = "bsToAd" /\ FirstCompleted)
          => IF ValidBs(input) THEN first.status = "ok"
                               ELSE first = Thrown("InvalidBsDate")
    /\ (call = "bsToAd" /\ stage = 1 /\ pc = "bsToAd") => ValidBs(input)

\* bsToAd has rejected the day after the last day of BS_MAX_YEAR.
BsToAdFailsWitness ==
    /\ call = "bsToAd" /\ pc = "done"
    /\ input = YMD(BS_MAX_YEAR, 12, LastBsDay.day + 1)
    /\ first = Thrown("InvalidBsDate")

\* C4: adToBs throws the invalid-AD-date error for every triple that is not a real
\* Gregorian day, whether the triple lies before, inside or after the supported span.
AdToBsRejectsUnreal ==
    (call = "adToBs" /\ ~RealGregorian(input))
        => (pc = "done" /\ stage = 1 /\ first = Thrown("InvalidAdDate"))

\* adToBs has rejected 29 February of the non-leap year before AD_REFERENCE.
AdToBsRejectsUnrealWitness ==
    /\ call = "adToBs" /\ input = YMD(AD_REFERENCE.year - 1, 2, 29)
    /\ first = Thrown("InvalidAdDate")

\* C5: adToBs throws the before-supported-range error for exactly the real Gregorian
\* dates strictly earlier than AD_REFERENCE.
AdToBsBeforeRangeIffEarlier ==
    (call = "adToBs" /\ RealGregorian(input) /\ FirstCompleted)
        => (first = Thrown("BeforeRange") <=> Earlier(input, AD_REFERENCE))

IsValidBsDateExact ==
    (call = "isValidBsDate" /\ pc = "done")
        => (first.status = "ok" /\ (first.bool <=> ValidBs(input)))

\* isValidBsDate has answered false for the day after a month's last day.
IsValidBsDateWitness ==
    /\ call = "isValidBsDate" /\ pc = "done"
    /\ input.year = BS_MAX_YEAR /\ input.month = 2
    /\ input.day = BS_CALENDAR_DATA[BS_MAX_YEAR][2] + 1
    /\ first = ReturnedBool(FALSE)

\* C8: getDaysInBsMonth returns the table entry for a supported year and a month
\* in 1..12, throws the unsupported-year error for every other year (whatever the
\* month), throws the invalid-month error for a bad month of a supported year, and
\* never returns undefined.
GetDaysInBsMonthContract ==
    (call = "getDaysInBsMonth" /\ pc = "done")
        => IF input.year < BS_MIN_YEAR \/ input.year > BS_MAX_YEAR
               THEN first = Thrown("UnsupportedYear")
           ELSE IF input.month < 1 \/ input.month > 12
               THEN first = Thrown("InvalidMonth")
           ELSE first = ReturnedNum(BS_CALENDAR_DATA[input.year][input.month])

\* getDaysInBsMonth was called with an unsupported year and a bad month at once.
GetDaysInBsMonthWitness ==
    /\ call = "getDaysInBsMonth" /\ pc = "done"
    /\ input.year = BS_MAX_YEAR + 1 /\ input.month = 13
    /\ first = Thrown("UnsupportedYear")

\* C9: compareBsDates returns -1, 0 or 1, is the lexicographic order on
\* (year, month, day), returns 0 exactly on equal fields, is antisymmetric and
\* transitive.
CompareIsLexicographicOrder ==
    cmpRes.applied = "compare"
        => /\ cmpRes.ab \in {-1, 0, 1}
           /\ (cmpRes.ab = 0 <=> cmpArgs.a = cmpArgs.b)
           /\ (cmpRes.ab = -1 <=> Earlier(cmpArgs.a, cmpArgs.b))
           /\ (cmpRes.ab = 1 <=> Earlier(cmpArgs.b, cmpArgs.a))
           /\ cmpRes.ab = 0 - cmpRes.ba
           /\ (cmpRes.ab = -1 /\ cmpRes.bc = -1) => cmpRes.ac = -1

\* A chain a < b < c decided by the year against the month and the day.
CompareWitness ==
    /\ cmpRes.applied = "compare"
    /\ cmpArgs.a.year < cmpArgs.b.year /\ cmpArgs.a.month > cmpArgs.b.month
    /\ cmpArgs.b.month < cmpArgs.c.month /\ cmpArgs.b.day > cmpArgs.c.day
    /\ cmpRes.ab = -1 /\ cmpRes.bc = -1 /\ cmpRes.ac = -1

\* C10: isBsDateInRange returns false exactly when min is present and date < min,
\* or max is present and date > max; both bounds are inclusive.
InRangeIsInclusiveInterval ==
    cmpRes.applied = "inRange"
        => /\ cmpRes.inRange
                <=> ~(\/ cmpArgs.hasMin /\ Earlier(cmpArgs.a, cmpArgs.b)
                      \/ cmpArgs.hasMax /\ Earlier(cmpArgs.c, cmpArgs.a))
           /\ (/\ cmpArgs.hasMin /\ cmpArgs.hasMax
               /\ ~Earlier(cmpArgs.c, cmpArgs.b)
               /\ cmpArgs.a \in {cmpArgs.b, cmpArgs.c}) => cmpRes.inRange

\* The date equals max, with min < max, and is in range.
InRangeWitness ==
    /\ cmpRes.applied = "inRange"
    /\ cmpArgs.hasMin /\ cmpArgs.hasMax
    /\ cmpArgs.a = cmpArgs.c /\ Earlier(cmpArgs.b, cmpArgs.c)
    /\ cmpRes.inRange

---------------------------------------------------------------------------
(* Strings *)

(***************************************************************************)
(* A JavaScript string is modelled as the sequence of its UTF-16 code      *)
(* units.  An ASCII code unit is written as itself ("M", "-", "0"); any    *)
(* other code unit is written by its code point ("U+0966" is DEVANAGARI    *)
(* DIGIT ZERO, "U+0000" the NUL control character).                        *)
(***************************************************************************)

\* The ASCII digits, by value.
AsciiDigits == <<"0", "1", "2", "3", "4", "5", "6", "7", "8", "9">>

\* The regular expression class \d (without the u or v flag: ASCII digits only).
IsAsciiDigit(c) == \E d \in 1..10 : AsciiDigits[d] = c

DigitValue(c) == (CHOOSE d \in 1..10 : AsciiDigits[d] = c) - 1

\* Number.prototype.toString() of an integer below 10^21.
RECURSIVE toString(_)
toString(n) ==
    IF n < 0 THEN <<"-">> \o toString(0 - n)
    ELSE IF n < 10 THEN <<AsciiDigits[n + 1]>>
    ELSE toString(n \div 10) \o <<AsciiDigits[(n % 10) + 1]>>

\* parseInt(s) of a non-empty string of ASCII digits (radix 10).
RECURSIVE parseInt(_)
parseInt(s) ==
    IF Len(s) = 0 THEN 0
    ELSE 10 * parseInt(SubSeq(s, 1, Len(s) - 1)) + DigitValue(s[Len(s)])

\* String.prototype.padStart(targetLength, padString).
padStart(s, targetLength, padString) ==
    IF Len(s) >= targetLength \/ Len(padString) = 0 THEN s
    ELSE [i \in 1..(targetLength - Len(s)) |-> padString[((i - 1) % Len(padString)) + 1]] \o s

\* String.prototype.slice(0, end), end >= 0.
slice(s, end) == SubSeq(s, 1, IF end < Len(s) THEN end ELSE Len(s))

\* pattern occurs in s at position i.
OccursAt(s, pattern, i) ==
    /\ i + Len(pattern) - 1 <= Len(s)
    /\ \A k \in 1..Len(pattern) : s[i + k - 1] = pattern[k]

Least(S) == CHOOSE i \in S : \A j \in S : i <= j

Splice(s, i, n, replacement) ==
    SubSeq(s, 1, i - 1) \o replacement \o SubSeq(s, i + n, Len(s))

\* String.prototype.replace(pattern, replacement) with a string pattern: only
\* the first occurrence is replaced.  (No replacement used here contains "$".)
replace(s, pattern, replacement) ==
    LET at == { i \in 1..Len(s) : OccursAt(s, pattern, i) } IN
    IF at = {} THEN s ELSE Splice(s, Least(at), Len(pattern), replacement)

\* String.prototype.replace(/(?<!c)c(?!c)/, replacement): the regular expression
\* has no g flag, so only the first c with no c before or after it is replaced.
replaceLone(s, c, replacement) ==
    LET at == { i \in 1..Len(s) :
                   /\ s[i] = c
                   /\ (i = 1 \/ s[i - 1] # c)
                   /\ (i = Len(s) \/ s[i + 1] # c) } IN
    IF at = {} THEN s ELSE Splice(s, Least(at), 1, replacement)

\* A string-valued completion: a returned string or a thrown error.
Str(s) == [status |-> "ok", str |-> s]
ThrownStr(kind) == [status |-> kind, str |-> <<>>]

---------------------------------------------------------------------------
(* Localisation data (nepali-date-data), modelled from the documentation *)

NEPALI_NUMERALS ==
    <<"U+0966", "U+0967", "U+0968", "U+0969", "U+096A",
      "U+096B", "U+096C", "U+096D", "U+096E", "U+096F">>

NEPALI_MONTHS ==
    [en |-> <<<<"B", "a", "i", "s", "a", "k", "h">>,
            <<"J", "e", "s", "t", "h", "a">>,
            <<"A", "s", "h", "a", "r">>,
            <<"S", "h", "r", "a", "w", "a", "n">>,
            <<"B", "h", "a", "d", "r", "a">>,
            <<"A", "s", "h", "w", "i", "n">>,
            <<"K", "a", "r", "t", "i", "k">>,
            <<"M", "a", "n", "g", "s", "i", "r">>,
            <<"P", "o", "u", "s", "h">>,
            <<"M", "a", "g", "h">>,
            <<"F", "a", "l", "g", "u", "n">>,
            <<"C", "h", "a", "i", "t", "r", "a">>>>,
     ne |-> <<<<"U+092C", "U+0948", "U+0936", "U+093E", "U+0916">>,
            <<"U+091C", "U+0947", "U+0920">>,
            <<"U+0905", "U+0938", "U+093E", "U+0930">>,
            <<"U+0936", "U+094D", "U+0930", "U+093E", "U+0935", "U+0923">>,
            <<"U+092D", "U+093E", "U+0926", "U+094D", "U+0930">>,
            <<"U+0906", "U+0936", "U+094D", "U+0935", "U+093F", "U+0928">>,
            <<"U+0915", "U+093E", "U+0930", "U+094D", "U+0924", "U+093F", "U+0915">>,
            <<"U+092E", "U+0902", "U+0938", "U+093F", "U+0930">>,
            <<"U+092A", "U+094C", "U+0937">>,
            <<"U+092E", "U+093E", "U+0918">>,
            <<"U+092B", "U+093E", "U+0932", "U+094D", "U+0917", "U+0941", "U+0923">>,
            <<"U+091A", "U+0948", "U+0924", "U+094D", "U+0930">>>>]

\* The month names of formatAdDate.
AD_MONTHS ==
    <<<<"J", "a", "n", "u", "a", "r", "y">>,
      <<"F", "e", "b", "r", "u", "a", "r", "y">>,
      <<"M", "a", "r", "c", "h">>,
      <<"A", "p", "r", "i", "l">>,
      <<"M", "a", "y">>,
      <<"J", "u", "n", "e">>,
      <<"J", "u", "l", "y">>,
      <<"A", "u", "g", "u", "s", "t">>,
      <<"S", "e", "p", "t", "e", "m", "b", "e", "r">>,
      <<"O", "c", "t", "o", "b", "e", "r">>,
      <<"N", "o", "v", "e", "m", "b", "e", "r">>,
      <<"D", "e", "c", "e", "m", "b", "e", "r">>>>

---------------------------------------------------------------------------
(* Formatter and parser (date-formatter.ts) *)

\* Mutant: every digit mapped to the numeral of the next digit.
toNepaliNumeral_Shifted(num) ==
    LET digits == toString(num) IN
    [i \in 1..Len(digits) |->
        IF IsAsciiDigit(digits[i])
            THEN NEPALI_NUMERALS[((DigitValue(digits[i]) + 1) % 10) + 1]
            ELSE digits[i]]

\* num.toString().split('').map(digit => NEPALI_NUMERALS[parseInt(digit)] || digit).join('')
\* parseInt of a character that is not a digit is NaN, NEPALI_NUMERALS[NaN] is
\* undefined, and the character is kept.
toNepaliNumeral(num) ==
    LET digits == toString(num) IN
    [i \in 1..Len(digits) |->
        IF IsAsciiDigit(digits[i])
            THEN NEPALI_NUMERALS[DigitValue(digits[i]) + 1]
            ELSE digits[i]]

\* Mutant: no padding.
pad_None(n) == toString(n)

pad(n) == padStart(toString(n), 2, <<"0">>)

formatNum(n, language) ==
    IF language = "ne" THEN toNepaliNumeral(n) ELSE toString(n)

\* Mutant: the Nepali rendering padded with the ASCII zero.
formatNumPad_AsciiZero(n, language) ==
    IF language = "ne" THEN padStart(toNepaliNumeral(n), 2, <<"0">>) ELSE pad(n)

formatNumPad(n, language) ==
    IF language = "ne" THEN padStart(toNepaliNumeral(n), 2, <<NEPALI_NUMERALS[1]>>)
                       ELSE pad(n)

FULL_MONTH_PLACEHOLDER == <<"U+0000", "U+0001", "U+0002", "U+0003", "U+0000">>
SHORT_MONTH_PLACEHOLDER == <<"U+0000", "U+0004", "U+0005", "U+0006", "U+0000">>

\* Mutant: the month names substituted directly, before the numeric tokens.
formatBsDate_NamesFirst(date, format, language) ==
    IF date.month - 1 \notin 0..11 THEN ThrownStr("TypeError")
    ELSE LET name == NEPALI_MONTHS[language][date.month]
             r1 == replace(format, <<"M", "M", "M", "M">>, name)
             r2 == replace(r1, <<"M", "M", "M">>, slice(name, 3))
             r3 == replace(r2, <<"Y", "Y", "Y", "Y">>, formatNum(date.year, language))
             r4 == replace(r3, <<"Y", "Y">>, formatNum(date.year % 100, language))
             r5 == replace(r4, <<"M", "M">>, formatNumPad(date.month, language))
             r6 == replaceLone(r5, "M", formatNum(date.month, language))
             r7 == replace(r6, <<"D", "D">>, formatNumPad(date.day, language))
         IN  Str(replaceLone(r7, "D", formatNum(date.day, language)))

\* Mutant: the numeric month tokens replaced before the month-name tokens.
formatBsDate_NumbersFirst(date, format, language) ==
    LET r1 == replace(format, <<"Y", "Y", "Y", "Y">>, formatNum(date.year, language))
        r2 == replace(r1, <<"Y", "Y">>, formatNum(date.year % 100, language))
        r3 == replace(r2, <<"M", "M">>, formatNumPad(date.month, language))
        r4 == replaceLone(r3, "M", formatNum(date.month, language))
        r5 == replace(r4, <<"M", "M", "M", "M">>, FULL_MONTH_PLACEHOLDER)
        r6 == replace(r5, <<"M", "M", "M">>, SHORT_MONTH_PLACEHOLDER)
        r7 == replace(r6, <<"D", "D">>, formatNumPad(date.day, language))
        r8 == replaceLone(r7, "D", formatNum(date.day, language))
    IN  IF date.month - 1 \notin 0..11 THEN ThrownStr("TypeError")
        ELSE LET name == NEPALI_MONTHS[language][date.month]
                 r9 == replace(r8, FULL_MONTH_PLACEHOLDER, name)
             IN  Str(replace(r9, SHORT_MONTH_PLACEHOLDER, slice(name, 3)))

\* formatBsDate: the ten replacements of lines 56-73, in order.  For a month
\* outside 1..12 NEPALI_MONTHS[language][date.month - 1] is undefined and
\* .slice(0, 3) on it (line 73) throws a TypeError.
formatBsDate(date, format, language) ==
    LET r1 == replace(format, <<"M", "M", "M", "M">>, FULL_MONTH_PLACEHOLDER)
        r2 == replace(r1, <<"M", "M", "M">>, SHORT_MONTH_PLACEHOLDER)
        r3 == replace(r2, <<"Y", "Y", "Y", "Y">>, formatNum(date.year, language))
        r4 == replace(r3, <<"Y", "Y">>, formatNum(date.year % 100, language))
        r5 == replace(r4, <<"M", "M">>, formatNumPad(date.month, language))
        r6 == replaceLone(r5, "M", formatNum(date.month, language))
        r7 == replace(r6, <<"D", "D">>, formatNumPad(date.day, language))
        r8 == replaceLone(r7, "D", formatNum(date.day, language))
    IN  IF date.month - 1 \notin 0..11 THEN ThrownStr("TypeError")
        ELSE LET name == NEPALI_MONTHS[language][date.month]
                 r9 == replace(r8, FULL_MONTH_PLACEHOLDER, name)
             IN  Str(replace(r9, SHORT_MONTH_PLACEHOLDER, slice(name, 3)))

\* formatAdDate: the same ten replacements with ASCII digits and AD_MONTHS.
formatAdDate(date, format) ==
    LET r1 == replace(format, <<"M", "M", "M", "M">>, FULL_MONTH_PLACEHOLDER)
        r2 == replace(r1, <<"M", "M", "M">>, SHORT_MONTH_PLACEHOLDER)
        r3 == replace(r2, <<"Y", "Y", "Y", "Y">>, toString(date.year))
        r4 == replace(r3, <<"Y", "Y">>, toString(date.year % 100))
        r5 == replace(r4, <<"M", "M">>, pad(date.month))
        r6 == replaceLone(r5, "M", toString(date.month))
        r7 == replace(r6, <<"D", "D">>, pad(date.day))
        r8 == replaceLone(r7, "D", toString(date.day))
    IN  IF date.month - 1 \notin 0..11 THEN ThrownStr("TypeError")
        ELSE LET name == AD_MONTHS[date.month]
                 r9 == replace(r8, FULL_MONTH_PLACEHOLDER, name)
             IN  Str(replace(r9, SHORT_MONTH_PLACEHOLDER, slice(name, 3)))

\* What parseBsDate returns: null, or a NepaliDate.
Null == [status |-> "null", date |-> NoDate]
Parsed(date) == [status |-> "ok", date |-> date]

\* The ways /^(\d{4})-(\d{1,2})-(\d{1,2})$/ matches s: the lengths <<m, d>> of
\* the second and third groups.  Both anchors are absolute (no m flag).
MatchBsDate(s, lengths) ==
    { md \in lengths \X lengths :
        /\ Len(s) = 4 + 1 + md[1] + 1 + md[2]
        /\ \A i \in 1..4 : IsAsciiDigit(s[i])
        /\ s[5] = "-"
        /\ \A i \in 6..(5 + md[1]) : IsAsciiDigit(s[i])
        /\ s[6 + md[1]] = "-"
        /\ \A i \in (7 + md[1])..Len(s) : IsAsciiDigit(s[i]) }

\* Mutant: \d{2} in place of \d{1,2}.
parseBsDate_TwoDigits(dateString) ==
    LET match == MatchBsDate(dateString, {2}) IN
    IF match = {} THEN Null
    ELSE LET md == CHOOSE x \in match : TRUE IN
         Parsed(YMD(parseInt(SubSeq(dateString, 1, 4)),
                    parseInt(SubSeq(dateString, 6, 5 + md[1])),
                    parseInt(SubSeq(dateString, 7 + md[1], Len(dateString)))))

parseBsDate(dateString) ==
    LET match == MatchBsDate(dateString, 1..2) IN
    IF match = {} THEN Null
    ELSE LET md == CHOOSE x \in match : TRUE IN
         Parsed(YMD(parseInt(SubSeq(dateString, 1, 4)),
                    parseInt(SubSeq(dateString, 6, 5 + md[1])),
                    parseInt(SubSeq(dateString, 7 + md[1], Len(dateString)))))

---------------------------------------------------------------------------
(* Inputs of the formatter and the parser *)

\* The eight tokens, longest first within each letter.
YYYY == <<"Y", "Y", "Y", "Y">>
YY   == <<"Y", "Y">>
MMMM == <<"M", "M", "M", "M">>
MMM  == <<"M", "M", "M">>
MM   == <<"M", "M">>
M    == <<"M">>
DD   == <<"D", "D">>
D    == <<"D">>
TokenList == <<YYYY, YY, MMMM, MMM, MM, M, DD, D>>

\* The default pattern 'YYYY-MM-DD'.
CanonicalFormat == YYYY \o <<"-">> \o MM \o <<"-">> \o DD

\* Literal text put between, before and after tokens: no Y, M or D in it.
Literals ==
    { <<"-">>, <<",", " ">>, <<"d", "/", "1">>,
      FULL_MONTH_PLACEHOLDER, SHORT_MONTH_PLACEHOLDER }

\* Patterns in which no token occurs twice and tokens are separated by a literal.
OnceFormats ==
    { pre \o TokenList[i] : pre \in Literals \cup {<<>>}, i \in 1..8 }
    \cup { TokenList[i] \o suf : suf \in Literals, i \in 1..8 }
    \cup { TokenList[p[1]] \o sep \o TokenList[p[2]] :
               sep \in Literals, p \in { q \in (1..8) \X (1..8) : q[1] # q[2] } }
    \cup Literals
    \cup { CanonicalFormat,
           MMMM \o <<" ">> \o D \o <<",", " ">> \o YYYY,
           D \o <<" ">> \o MMM \o <<" ">> \o YY,
           DD \o <<"/">> \o MM \o <<"/">> \o YY,
           M \o <<".">> \o MM \o <<".">> \o MMM \o <<".">> \o MMMM }

\* Patterns that repeat a token, and runs of a token letter.
RepeatFormats ==
    { TokenList[i] \o sep \o TokenList[i] : sep \in {<<"-">>, <<" ">>}, i \in 1..8 }
    \cup { CanonicalFormat \o <<" ", "/", " ">> \o YYYY,
           <<"Y">>, <<"Y", "Y", "Y">>, <<"Y", "Y", "Y", "Y", "Y">>,
           <<"M", "M", "M", "M", "M">>, <<"D", "D", "D">> }

Formats == OnceFormats \cup RepeatFormats

Languages == {"en", "ne"}

\* NepaliDate objects handed to formatBsDate (it does not validate them).
FmtDates ==
    { YMD(y, m, d) : y \in {BS_MIN_YEAR, BS_MIN_YEAR + 10, BS_MIN_YEAR + 81, BS_MIN_YEAR + 100},
                     m \in {0, 1, 10, 12, 13}, d \in {5, 15, 32} }

\* Every month and day number, for the numeric month and day tokens.
MonthDayDates == { YMD(BS_MIN_YEAR, m, d) : m \in 1..12, d \in 1..32 }

\* The (date, format) arguments of formatBsDate.
FmtArgs == (FmtDates \X Formats) \cup (MonthDayDates \X {MM, M, DD, D})

\* Dates and patterns handed to formatAdDate.
AdFmtDates ==
    { YMD(y, m, d) : y \in {AD_REFERENCE.year, AD_REFERENCE.year + 66, AD_REFERENCE.year + 83},
                     m \in {0, 3, 5, 12}, d \in {1, 20} }

AdFormats ==
    { TokenList[i] : i \in 1..8 }
    \cup RepeatFormats
    \cup { CanonicalFormat, MMMM \o <<" ">> \o D \o <<",", " ">> \o YYYY }

\* Arguments of toNepaliNumeral.
NumeralInputs == 0..(BS_MIN_YEAR + 100) \cup {10000, 90909, 1000000007}

\* The strings handed to parseBsDate: a year part, a month part
\* and a day part of various lengths, various separators, leading and
\* trailing text, ASCII and Devanagari digits.
DigitRuns ==
    { <<>>, <<"0">>, <<"7">>, <<"1", "2">>, <<"0", "0">>, <<"4", "0">>, <<"0", "1", "5">>,
      <<"U+0967">>, <<"1", "U+0968">>, <<"+", "1">>, <<" ", "1">> }

YearRuns ==
    { <<"2", "0", "8", "2">>, <<"2", "0", "0", "1">>, <<"0", "0", "0", "0">>,
      <<"2", "0", "8">>, <<"2", "0", "8", "2", "1">>,
      <<"U+0968", "U+0966", "U+096E", "U+0968">>, <<"2", "0", "8", "x">> }

Texts ==
    { pre \o y \o s1 \o m \o s2 \o d \o suf :
          pre \in {<<>>, <<" ">>}, y \in YearRuns, s1 \in {<<"-">>, <<"/">>},
          m \in DigitRuns, s2 \in {<<"-">>, <<>>}, d \in DigitRuns,
          suf \in {<<>>, <<"U+000A">>, <<"T">>} }

\* The valid dates of the calendar table, the values a picker can hold.
ValidDates == { d \in BsInputs : isValidBsDate(d.year, d.month, d.day) }

DateFormats == { CanonicalFormat, MMMM \o <<" ">> \o D \o <<",", " ">> \o YYYY }

---------------------------------------------------------------------------
(* Calls of the formatter and the parser *)

\* Picker: const hiddenValue = value ? formatBsDate(value, 'YYYY-MM-DD', 'en') : ''
\* DateRangePicker: the same expression on value?.from and on value?.to.
\* The display language and dateFormat props do not enter it.
hiddenValue(v, dateFormat, language) ==
    IF Truthy(v) THEN formatBsDate(v[1], CanonicalFormat, "en") ELSE Str(<<>>)

CallFormatBsDate ==
    /\ fmtCall = NoCall
    /\ \E args \in FmtArgs, language \in Languages :
          /\ fmtCall' = [NoCall EXCEPT !.fn = "formatBsDate", !.date = args[1],
                                       !.present = TRUE, !.format = args[2],
                                       !.language = language]
          /\ fmtResult' = formatBsDate(args[1], args[2], language)
    /\ UNCHANGED <<parsed, convVars, cmpVars, pickerVars, legacyVars>>

CallFormatAdDate ==
    /\ fmtCall = NoCall
    /\ \E date \in AdFmtDates, format \in AdFormats :
          /\ fmtCall' = [NoCall EXCEPT !.fn = "formatAdDate", !.date = date, !.present = TRUE,
                                       !.format = format]
          /\ fmtResult' = formatAdDate(date, format)
    /\ UNCHANGED <<parsed, convVars, cmpVars, pickerVars, legacyVars>>

CallToNepaliNumeral ==
    /\ fmtCall = NoCall
    /\ \E num \in NumeralInputs :
          /\ fmtCall' = [NoCall EXCEPT !.fn = "toNepaliNumeral", !.num = num]
          /\ fmtResult' = Str(toNepaliNumeral(num))
    /\ UNCHANGED <<parsed, convVars, cmpVars, pickerVars, legacyVars>>

CallParseBsDate ==
    /\ fmtCall = NoCall
    /\ \E dateString \in Texts :
          /\ fmtCall' = [NoCall EXCEPT !.fn = "parseBsDate", !.text = dateString]
          /\ parsed' = parseBsDate(dateString)
    /\ UNCHANGED <<fmtResult, convVars, cmpVars, pickerVars, legacyVars>>

\* A Picker renders its hidden input from its value prop (calendar.tsx 423, 454).
RenderPickerHidden ==
    /\ fmtCall = NoCall
    /\ \E v \in {Absent} \cup { Present(d) : d \in ValidDates },
          dateFormat \in DateFormats, language \in Languages :
          /\ fmtCall' = [NoCall EXCEPT !.fn = "Picker.hiddenValue",
                                       !.date = IF Truthy(v) THEN v[1] ELSE NoDate,
                                       !.present = Truthy(v),
                                       !.format = dateFormat, !.language = language]
          /\ fmtResult' = hiddenValue(v, dateFormat, language)
    /\ UNCHANGED <<parsed, convVars, cmpVars, pickerVars, legacyVars>>

\* A DateRangePicker renders one hidden input per end of its value prop.
RenderRangeHidden ==
    /\ fmtCall = NoCall
    /\ \E end \in {"from", "to"}, v \in {Absent} \cup { Present(d) : d \in ValidDates },
          dateFormat \in DateFormats, language \in Languages :
          /\ fmtCall' = [NoCall EXCEPT !.fn = "DateRangePicker.hiddenValue",
                                       !.date = IF Truthy(v) THEN v[1] ELSE NoDate,
                                       !.present = Truthy(v), !.text = <<end>>,
                                       !.format = dateFormat, !.language = language]
          /\ fmtResult' = hiddenValue(v, dateFormat, language)
    /\ UNCHANGED <<parsed, convVars, cmpVars, pickerVars, legacyVars>>

\* The string a formatter call or a hidden input produced is handed to parseBsDate.
ParseFormatted ==
    /\ fmtCall.fn \in {"formatBsDate", "Picker.hiddenValue", "DateRangePicker.hiddenValue"}
    /\ fmtResult.status = "ok"
    /\ parsed = NotParsed
    /\ parsed' = parseBsDate(fmtResult.str)
    /\ UNCHANGED <<fmtCall, fmtResult, convVars, cmpVars, pickerVars, legacyVars>>

InitFmt ==
    /\ pc = "idle"
    /\ call = "none"
    /\ input = NoDate
    /\ stage = 1
    /\ cur = NoDate
    /\ remainingDays = 0
    /\ totalDays = 0
    /\ first = Pending
    /\ second = Pending
    /\ cmpArgs = NoArgs
    /\ cmpRes = NoRes
    /\ FmtIdle
    /\ PopoversUnmounted
    /\ PickerUnmounted

NextFmt ==
    \/ CallFormatBsDate
    \/ CallFormatAdDate
    \/ CallToNepaliNumeral
    \/ CallParseBsDate
    \/ RenderPickerHidden
    \/ RenderRangeHidden
    \/ ParseFormatted

SpecFmt == InitFmt /\ [][NextFmt]_vars

---------------------------------------------------------------------------
(* Vocabulary of the formatter and parser properties *)

DigitGlyphs == {"0", "1", "2", "3", "4", "5", "6", "7", "8", "9"}

DigitOf(c) ==
    CASE c = "0" -> 0 [] c = "1" -> 1 [] c = "2" -> 2 [] c = "3" -> 3 [] c = "4" -> 4
      [] c = "5" -> 5 [] c = "6" -> 6 [] c = "7" -> 7 [] c = "8" -> 8 [] c = "9" -> 9

RECURSIVE Pow10(_)
Pow10(k) == IF k = 0 THEN 1 ELSE 10 * Pow10(k - 1)

\* The number a string of ASCII digits denotes in base ten.
RECURSIVE DecimalValue(_)
DecimalValue(s) ==
    IF s = <<>> THEN 0
    ELSE DigitOf(Head(s)) * Pow10(Len(s) - 1) + DecimalValue(Tail(s))

AllDigits(s) == \A i \in 1..Len(s) : s[i] \in DigitGlyphs

\* The parts of s between its "-" characters, when it has exactly two of them.
Dashes(s) == { i \in 1..Len(s) : s[i] = "-" }
FirstDash(s) == CHOOSE i \in Dashes(s) : \A j \in Dashes(s) : i <= j
LastDash(s) == CHOOSE i \in Dashes(s) : \A j \in Dashes(s) : j <= i
YearPart(s) == SubSeq(s, 1, FirstDash(s) - 1)
MonthPart(s) == SubSeq(s, FirstDash(s) + 1, LastDash(s) - 1)
DayPart(s) == SubSeq(s, LastDash(s) + 1, Len(s))

\* Four digits, '-', one or two digits, '-', one or two digits, and nothing else.
CanonicalShape(s) ==
    /\ Cardinality(Dashes(s)) = 2
    /\ Len(YearPart(s)) = 4 /\ AllDigits(YearPart(s))
    /\ Len(MonthPart(s)) \in {1, 2} /\ AllDigits(MonthPart(s))
    /\ Len(DayPart(s)) \in {1, 2} /\ AllDigits(DayPart(s))

---------------------------------------------------------------------------
(* Properties of the parser *)

\* C11: parseBsDate returns a date exactly for the strings made of four ASCII
\* digits, '-', one or two ASCII digits, '-', one or two ASCII digits; for every
\* other string it returns null; the fields of a returned date are the decimal
\* values of the three digit groups.
ParseAcceptsExactlyCanonicalShape ==
    fmtCall.fn = "parseBsDate" =>
        /\ parsed.status \in {"ok", "null"}
        /\ (parsed.status = "ok") <=> CanonicalShape(fmtCall.text)
        /\ parsed.status = "ok" =>
              parsed.date = YMD(DecimalValue(YearPart(fmtCall.text)),
                                DecimalValue(MonthPart(fmtCall.text)),
                                DecimalValue(DayPart(fmtCall.text)))
        /\ parsed.status = "null" => parsed.date = NoDate

\* A one-digit month and a two-digit day are parsed to their values.
ParseAcceptsWitness ==
    /\ fmtCall.fn = "parseBsDate"
    /\ fmtCall.text = <<"2", "0", "8", "2", "-", "7", "-", "1", "2">>
    /\ parsed = Parsed(YMD(2082, 7, 12))

\* C12: every non-null result of parseBsDate satisfies the NepaliDate
\* invariants (supported year, month in 1..12, day in 1..month length).
ParsedDateIsValid ==
    (fmtCall.fn = "parseBsDate" /\ parsed.status = "ok") => ValidBs(parsed.date)

---------------------------------------------------------------------------
(* Properties of the formatter *)

\* The decimal numeral of a natural number, and the same padded to two digits.
RECURSIVE Decimal(_)
Decimal(n) ==
    IF n < 10 THEN <<AsciiDigits[n + 1]>>
    ELSE Decimal(n \div 10) \o <<AsciiDigits[(n % 10) + 1]>>

TwoDigits(n) == IF n < 10 THEN <<"0">> \o Decimal(n) ELSE Decimal(n)

\* The image of a string of ASCII digits under the numeral table.
NepaliImage(s) == [i \in 1..Len(s) |-> NEPALI_NUMERALS[DigitOf(s[i]) + 1]]

Localized(s, language) == IF language = "ne" THEN NepaliImage(s) ELSE s

\* A date the formatter is documented for: month 1..12, day 1..32, a year
\* from BS_MIN_YEAR on.
Formattable(date) ==
    /\ date.year >= BS_MIN_YEAR
    /\ date.month \in 1..12
    /\ date.day \in 1..32

\* The meaning of token number k of TokenList by the README table.
Meaning(names, k, date, language) ==
    CASE k = 1 -> Localized(Decimal(date.year), language)
      [] k = 2 -> Localized(Decimal(date.year % 100), language)
      [] k = 3 -> names[date.month]
      [] k = 4 -> SubSeq(names[date.month], 1, 3)
      [] k = 5 -> Localized(TwoDigits(date.month), language)
      [] k = 6 -> Localized(Decimal(date.month), language)
      [] k = 7 -> Localized(TwoDigits(date.day), language)
      [] k = 8 -> Localized(Decimal(date.day), language)

\* The token that starts s, longest first (0: s starts with a literal character).
TokenAtStart(s) ==
    LET hits == { k \in 1..8 : OccursAt(s, TokenList[k], 1) } IN
    IF hits = {} THEN 0 ELSE CHOOSE k \in hits : \A j \in hits : k <= j

\* The single left-to-right, longest-match-first tokenization of a pattern:
\* a sequence of spans, each a token (by number) or one literal character.
RECURSIVE Spans(_)
Spans(s) ==
    IF s = <<>> THEN <<>>
    ELSE LET k == TokenAtStart(s) IN
         IF k = 0 THEN <<[token |-> 0, text |-> <<Head(s)>>]>> \o Spans(Tail(s))
         ELSE <<[token |-> k, text |-> TokenList[k]]>>
              \o Spans(SubSeq(s, Len(TokenList[k]) + 1, Len(s)))

\* What the tokenization renders: each token by its meaning, each literal as it is.
RECURSIVE Rendered(_, _, _, _)
Rendered(names, spans, date, language) ==
    IF spans = <<>> THEN <<>>
    ELSE (IF Head(spans).token = 0 THEN Head(spans).text
          ELSE Meaning(names, Head(spans).token, date, language))
         \o Rendered(names, Tail(spans), date, language)

\* Each token occurs at most once, tokens are separated by literal text, and
\* no literal character is Y, M or D.
TokensOnceAndSeparated(format) ==
    LET spans == Spans(format) IN
    /\ \A i, j \in 1..Len(spans) :
          (i # j /\ spans[i].token # 0) => spans[i].token # spans[j].token
    /\ \A i \in 1..(Len(spans) - 1) : spans[i].token = 0 \/ spans[i + 1].token = 0
    /\ \A i \in 1..Len(spans) :
          spans[i].token = 0 => spans[i].text \notin {<<"Y">>, <<"M">>, <<"D">>}

\* The code units U+0000..U+0006 of which the two placeholders are made.
PlaceholderUnits == {"U+0000", "U+0001", "U+0002", "U+0003", "U+0004", "U+0005", "U+0006"}

NoPlaceholderUnit(format) == \A i \in 1..Len(format) : format[i] \notin PlaceholderUnits

FormattedBs ==
    /\ fmtCall.fn = "formatBsDate"
    /\ Formattable(fmtCall.date)

FormattedAd ==
    /\ fmtCall.fn = "formatAdDate"
    /\ fmtCall.date.month \in 1..12

\* C13: for every valid BS date d the canonical string formatBsDate(d,
\* 'YYYY-MM-DD', 'en') is four ASCII digits, '-', two ASCII digits, '-', two
\* ASCII digits, parseBsDate of it returns d, and the hidden inputs of Picker
\* and DateRangePicker carry it whatever the language and dateFormat props are.
CanonicalStringRoundTrips ==
    LET canonicalCall ==
            \/ /\ fmtCall.fn \in {"Picker.hiddenValue", "DateRangePicker.hiddenValue"}
               /\ fmtCall.present
            \/ /\ fmtCall.fn = "formatBsDate"
               /\ fmtCall.format = CanonicalFormat /\ fmtCall.language = "en"
        s == fmtResult.str
    IN  (canonicalCall /\ ValidBs(fmtCall.date)) =>
            /\ fmtResult.status = "ok"
            /\ Len(s) = 10
            /\ AllDigits(SubSeq(s, 1, 4)) /\ s[5] = "-"
            /\ AllDigits(SubSeq(s, 6, 7)) /\ s[8] = "-"
            /\ AllDigits(SubSeq(s, 9, 10))
            /\ parsed # NotParsed => parsed = Parsed(fmtCall.date)

\* A DateRangePicker displaying Nepali month names has submitted '2000-01-05'.
CanonicalStringWitness ==
    /\ fmtCall.fn = "DateRangePicker.hiddenValue"
    /\ fmtCall.language = "ne"
    /\ fmtCall.format # CanonicalFormat
    /\ fmtCall.date = YMD(BS_MIN_YEAR, 1, 5)
    /\ fmtResult.str = <<"2", "0", "0", "0", "-", "0", "1", "-", "0", "5">>
    /\ parsed = Parsed(YMD(BS_MIN_YEAR, 1, 5))

FormatEqualsTokenization ==
    /\ FormattedBs =>
          fmtResult = Str(Rendered(NEPALI_MONTHS[fmtCall.language], Spans(fmtCall.format),
                                   fmtCall.date, fmtCall.language))
    /\ FormattedAd =>
          fmtResult = Str(Rendered(AD_MONTHS, Spans(fmtCall.format), fmtCall.date, "en"))

\* A digit glyph of either numeral system.
IsDigitGlyph(c) == c \in DigitGlyphs \/ \E i \in 1..10 : NEPALI_NUMERALS[i] = c

\* C16: the text substituted for the YY token is exactly two digits, for
\* every supported BS year and for every AD year.
YYRendersTwoDigits ==
    ((FormattedBs \/ FormattedAd) /\ fmtCall.format = YY) =>
        /\ fmtResult.status = "ok"
        /\ Len(fmtResult.str) = 2
        /\ \A i \in 1..Len(fmtResult.str) : IsDigitGlyph(fmtResult.str[i])

\* C17: for every month 1..12 and day 1..32, MM and DD render exactly two
\* digit glyphs: in 'en' the number left-padded with '0', in 'ne' the image of
\* that string under the numeral table (so the padding is the Nepali zero).
PaddedTokensRenderTwoGlyphs ==
    (FormattedBs /\ fmtCall.format \in {MM, DD}) =>
        LET n == IF fmtCall.format = MM THEN fmtCall.date.month ELSE fmtCall.date.day
            en == TwoDigits(n)
        IN  /\ fmtResult.status = "ok"
            /\ Len(fmtResult.str) = 2
            /\ fmtCall.language = "en" => fmtResult.str = en
            /\ fmtCall.language = "ne" => fmtResult.str = NepaliImage(en)

\* DD of day 5 in Nepali: the Nepali zero, then the Nepali five.
PaddedTokensWitness ==
    /\ FormattedBs
    /\ fmtCall.format = DD
    /\ fmtCall.language = "ne"
    /\ fmtCall.date.day = 5
    /\ fmtResult.str = <<"U+0966", "U+096B">>

---------------------------------------------------------------------------
(* Picker components (picker/calendar.tsx, date-range-picker) *)

(***************************************************************************)
(* A mounted Picker, PickerWithToday or DateRangePicker with the Calendar  *)
(* it shows in its popover.  The parent is a controlled one: it stores     *)
(* what onChange reports and passes it back as the value prop.  value is   *)
(* kept as a pair (from, to); a Picker's value is its from, its to stays   *)
(* absent.  The Calendar exists only while the popover is open             *)
(* (PopoverContent renders nothing when closed), so viewDate is NoDate     *)
(* while closed and is initialised anew on every opening.                  *)
(***************************************************************************)

\* PickerWithToday renders <Picker {...props} closeOnSelect={false} />.
closeOnSelectOf(p) ==
    IF p.component = "PickerWithToday" THEN FALSE ELSE p.closeOnSelect

modeOf(p) == IF p.component = "DateRangePicker" THEN "range" ELSE "single"

\* Picker.handleSelect: onChange?.(date); if (closeOnSelect) setOpen(false).
\* The open state after it.
handleSelect(closeOnSelect, isOpen) ==
    IF closeOnSelect THEN FALSE ELSE isOpen

\* Mutant: the popover closed after every click, the first of a range included.
handleRangeSelect_EveryClick(closeOnSelect, range, isOpen) ==
    IF closeOnSelect THEN FALSE ELSE isOpen

\* DateRangePicker.handleRangeSelect: onChange?.(range);
\* if (closeOnSelect && range.from && range.to) setOpen(false).
handleRangeSelect(closeOnSelect, range, isOpen) ==
    IF closeOnSelect /\ Truthy(range.from) /\ Truthy(range.to) THEN FALSE ELSE isOpen

\* Mutant: the second click of a range always becomes its end.
handleDateSelect_NoSwap(mode, date, selectedRange, minDate, maxDate) ==
    IF ~isBsDateInRange(date, minDate, maxDate) THEN Absent
    ELSE IF mode = "single" THEN Present([from |-> Present(date), to |-> Absent])
    ELSE IF ~Truthy(selectedRange.from)
            \/ (Truthy(selectedRange.from) /\ Truthy(selectedRange.to))
        THEN Present([from |-> Present(date), to |-> Absent])
    ELSE Present([from |-> selectedRange.from, to |-> Present(date)])

\* Calendar.handleDateSelect: what it reports through onSelect (single mode)
\* or onRangeSelect (range mode); absent when it returns without a callback.
handleDateSelect(mode, date, selectedRange, minDate, maxDate) ==
    IF ~isBsDateInRange(date, minDate, maxDate) THEN Absent
    ELSE IF mode = "single" THEN Present([from |-> Present(date), to |-> Absent])
    ELSE IF ~Truthy(selectedRange.from)
            \/ (Truthy(selectedRange.from) /\ Truthy(selectedRange.to))
        THEN Present([from |-> Present(date), to |-> Absent])
    ELSE IF compareBsDates(date, selectedRange.from[1]) < 0
        THEN Present([from |-> Present(date), to |-> selectedRange.from])
    ELSE Present([from |-> selectedRange.from, to |-> Present(date)])

\* The day button's disabled attribute.
isDisabled(date, minDate, maxDate) == ~isBsDateInRange(date, minDate, maxDate)

\* useState initialiser of viewDate: defaultMonth ?? selected ?? selectedRange.from ?? today.
initialViewDate(v, td) ==
    IF Truthy(v.from) THEN YMD(v.from[1].year, v.from[1].month, 1)
                      ELSE YMD(td.year, td.month, 1)

isPrevDisabled(view, minDate) ==
    Truthy(minDate) /\ view.year = minDate[1].year /\ view.month <= minDate[1].month

isNextDisabled(view, maxDate) ==
    Truthy(maxDate) /\ view.year = maxDate[1].year /\ view.month >= maxDate[1].month

\* The years offered by the year dropdown.
yearOptions(minDate, maxDate) ==
    LET start == IF Truthy(minDate) /\ minDate[1].year > BS_MIN_YEAR
                     THEN minDate[1].year ELSE BS_MIN_YEAR
        end == IF Truthy(maxDate) /\ maxDate[1].year < BS_MAX_YEAR
                   THEN maxDate[1].year ELSE BS_MAX_YEAR
    IN  start..end

\* The Calendar is on screen: the popover is open and the render of the
\* viewed month did not throw (getDaysInBsMonth(viewDate.year, viewDate.month)).
CalendarShown ==
    /\ open
    /\ getDaysInBsMonth(viewDate.year, viewDate.month).status = "ok"

\* The component tree is alive: no render has thrown.
Mounted ==
    /\ props.component # "none"
    /\ open => getDaysInBsMonth(viewDate.year, viewDate.month).status = "ok"

\* Popover onOpenChange of Picker and DateRangePicker: setOpen(newOpen);
\* if (!newOpen) onBlur?.().  The Calendar mounts on opening, unmounts on closing.
OpenChange(action, newOpen) ==
    /\ open' = newOpen
    /\ viewDate' = IF newOpen THEN initialViewDate(value, today) ELSE NoDate
    /\ lastEvent' = [action |-> action, reported |-> Absent,
                     blurs |-> IF newOpen THEN 0 ELSE 1, wasOpen |-> open]
    /\ UNCHANGED <<props, value, today>>

\* PopoverTrigger.handleClick: setOpen(!open).
TriggerClick ==
    /\ Mounted
    /\ OpenChange("trigger", ~open)
    /\ UNCHANGED <<convVars, cmpVars, fmtVars, legacyVars>>

\* Popover.handleEscape: closes an open popover.
PressEscape ==
    /\ Mounted /\ open
    /\ OpenChange("escape", FALSE)
    /\ UNCHANGED <<convVars, cmpVars, fmtVars, legacyVars>>

\* Popover.handleClickOutside: a mousedown outside trigger and content.
ClickOutside ==
    /\ Mounted /\ open
    /\ OpenChange("outside", FALSE)
    /\ UNCHANGED <<convVars, cmpVars, fmtVars, legacyVars>>

\* Navigation leaves a trace in lastEvent and reports nothing.
Navigated == lastEvent' = [action |-> "navigate", reported |-> Absent,
                           blurs |-> 0, wasOpen |-> open]

goToPreviousMonth ==
    /\ CalendarShown
    /\ ~isPrevDisabled(viewDate, props.minDate)
    /\ viewDate' = IF viewDate.month = 1 THEN YMD(viewDate.year - 1, 12, 1)
                                        ELSE [viewDate EXCEPT !.month = viewDate.month - 1]
    /\ Navigated
    /\ UNCHANGED <<props, open, value, today, convVars, cmpVars, fmtVars, legacyVars>>

goToNextMonth ==
    /\ CalendarShown
    /\ ~isNextDisabled(viewDate, props.maxDate)
    /\ viewDate' = IF viewDate.month = 12 THEN YMD(viewDate.year + 1, 1, 1)
                                         ELSE [viewDate EXCEPT !.month = viewDate.month + 1]
    /\ Navigated
    /\ UNCHANGED <<props, open, value, today, convVars, cmpVars, fmtVars, legacyVars>>

\* The month dropdown: any of the twelve month names.
SelectMonth ==
    /\ CalendarShown
    /\ props.captionLayout = "dropdown"
    /\ \E m \in 1..12 : viewDate' = [viewDate EXCEPT !.month = m]
    /\ Navigated
    /\ UNCHANGED <<props, open, value, today, convVars, cmpVars, fmtVars, legacyVars>>

\* The year dropdown: any of yearOptions.
SelectYear ==
    /\ CalendarShown
    /\ props.captionLayout = "dropdown"
    /\ \E y \in yearOptions(props.minDate, props.maxDate) :
          viewDate' = [viewDate EXCEPT !.year = y]
    /\ Navigated
    /\ UNCHANGED <<props, open, value, today, convVars, cmpVars, fmtVars, legacyVars>>

\* A click on a day button of the viewed month that is not disabled:
\* handleDateSelect, then the picker's handleSelect or handleRangeSelect, and
\* the parent storing what was reported.
DayClick ==
    /\ CalendarShown
    /\ \E day \in 1..getDaysInBsMonth(viewDate.year, viewDate.month).num :
          LET date == YMD(viewDate.year, viewDate.month, day)
              report == handleDateSelect(modeOf(props), date, value,
                                         props.minDate, props.maxDate)
          IN  /\ ~isDisabled(date, props.minDate, props.maxDate)
              /\ lastEvent' = [action |-> "dayClick", reported |-> report,
                               blurs |-> 0, wasOpen |-> open]
              /\ value' = IF Truthy(report) THEN report[1] ELSE value
              /\ open' = IF ~Truthy(report) THEN open
                         ELSE IF modeOf(props) = "single"
                             THEN handleSelect(closeOnSelectOf(props), open)
                         ELSE handleRangeSelect(closeOnSelectOf(props), report[1], open)
              /\ viewDate' = IF open' THEN viewDate ELSE NoDate
    /\ UNCHANGED <<props, today, convVars, cmpVars, fmtVars, legacyVars>>

\* PickerWithToday's Today button.  The button is outside the trigger and the
\* popover content, so its mousedown first closes an open popover
\* (handleClickOutside, with onBlur); then handleTodayClick reports
\* getTodayBs() through onChange.
TodayClick ==
    /\ Mounted
    /\ props.component = "PickerWithToday"
    /\ open' = FALSE
    /\ viewDate' = NoDate
    /\ value' = [from |-> Present(today), to |-> Absent]
    /\ lastEvent' = [action |-> "today",
                     reported |-> Present([from |-> Present(today), to |-> Absent]),
                     blurs |-> IF open THEN 1 ELSE 0, wasOpen |-> open]
    /\ UNCHANGED <<props, today, convVars, cmpVars, fmtVars, legacyVars>>

\* The props the pickers are mounted with.
Components == {"Picker", "PickerWithToday", "DateRangePicker"}

DateBounds ==
    { [minDate |-> Present(YMD(BS_MIN_YEAR, 1, 28)), maxDate |-> Present(YMD(BS_MIN_YEAR, 2, 3))],
      [minDate |-> Absent, maxDate |-> Present(YMD(BS_MIN_YEAR, 1, 3))],
      [minDate |-> Present(YMD(BS_MAX_YEAR, 12, 28)), maxDate |-> Absent] }

PickerProps ==
    { [component |-> c, minDate |-> b.minDate, maxDate |-> b.maxDate,
       closeOnSelect |-> cl, captionLayout |-> layout] :
          c \in Components, b \in DateBounds, cl \in BOOLEAN,
          layout \in {"buttons", "dropdown"} }

\* The current BS date, as getTodayBs() returns it.
Todays == { YMD(BS_MIN_YEAR, 2, 1), YMD(BS_MIN_YEAR + 1, 5, 10) }

InitPicker ==
    /\ pc = "idle"
    /\ call = "none"
    /\ input = NoDate
    /\ stage = 1
    /\ cur = NoDate
    /\ remainingDays = 0
    /\ totalDays = 0
    /\ first = Pending
    /\ second = Pending
    /\ cmpArgs = NoArgs
    /\ cmpRes = NoRes
    /\ FmtIdle
    /\ PopoversUnmounted
    /\ props \in PickerProps
    /\ open = FALSE
    /\ value = NoValue
    /\ viewDate = NoDate
    /\ today \in Todays
    /\ lastEvent = NoEvent

NextPicker ==
    \/ TriggerClick
    \/ PressEscape
    \/ ClickOutside
    \/ goToPreviousMonth
    \/ goToNextMonth
    \/ SelectMonth
    \/ SelectYear
    \/ DayClick
    \/ TodayClick

SpecPicker == InitPicker /\ [][NextPicker]_vars

---------------------------------------------------------------------------
(* Properties of the picker components *)

\* d lies within the bounds that are set.
WithinBounds(d, minDate, maxDate) ==
    /\ Truthy(minDate) => ~Earlier(d, minDate[1])
    /\ Truthy(maxDate) => ~Earlier(maxDate[1], d)

\* The dates of a reported value: the date of a Picker, the ends of a range.
ReportedDates ==
    IF ~Truthy(lastEvent.reported) THEN {}
    ELSE { e[1] : e \in { x \in {lastEvent.reported[1].from, lastEvent.reported[1].to} :
                            Truthy(x) } }

\* C19: after any sequence of user actions (day clicks, navigation, the Today
\* button), every date a picker reports through onChange lies within
\* [minDate, maxDate] when those props are set.
ReportedDatesWithinBounds ==
    \A d \in ReportedDates : WithinBounds(d, props.minDate, props.maxDate)

\* The same for the dates reported by day clicks alone.
DayClicksWithinBounds ==
    lastEvent.action = "dayClick" =>
        \A d \in ReportedDates : WithinBounds(d, props.minDate, props.maxDate)

\* C20: with closeOnSelect true an accepted day click leaves a Picker closed;
\* a DateRangePicker stays open after the click that sets only from and is
\* closed after the click that completes the range; with closeOnSelect false
\* an accepted day click leaves the open state as it was.
CloseOnSelectContract ==
    (lastEvent.action = "dayClick" /\ Truthy(lastEvent.reported)) =>
        IF ~closeOnSelectOf(props) THEN open = lastEvent.wasOpen
        ELSE IF props.component = "DateRangePicker"
            THEN IF Truthy(lastEvent.reported[1].to) THEN ~open
                 ELSE open /\ lastEvent.wasOpen
        ELSE ~open

\* An open DateRangePicker with closeOnSelect was closed by the click that
\* completed its range.
CloseOnSelectWitness ==
    /\ props.component = "DateRangePicker"
    /\ props.closeOnSelect
    /\ lastEvent.action = "dayClick"
    /\ lastEvent.wasOpen
    /\ Truthy(value.from) /\ Truthy(value.to)
    /\ lastEvent.reported = Present(value)
    /\ ~open

\* C21: every transition of the popover from open to closed (trigger click,
\* Escape, outside click, auto-close after a selection) comes with exactly one
\* onBlur call, and onBlur is not called while the popover opens or stays as
\* it is.
BlurOnEveryClose ==
    /\ (lastEvent.wasOpen /\ ~open) => lastEvent.blurs = 1
    /\ ~(lastEvent.wasOpen /\ ~open) => lastEvent.blurs = 0

\* The same for the closings that go through the Popover's onOpenChange.
BlurOnPopoverClose ==
    lastEvent.action \in {"trigger", "escape", "outside"} =>
        /\ (lastEvent.wasOpen /\ ~open) => lastEvent.blurs = 1
        /\ ~(lastEvent.wasOpen /\ ~open) => lastEvent.blurs = 0

\* s holds part as a contiguous substring.
Contains(s, part) == \E i \in 1..(Len(s) + 1) : OccursAt(s, part, i)

\* The tokens of a pattern, by number.
TokensOf(format) ==
    { Spans(format)[i].token : i \in 1..Len(Spans(format)) } \ {0}

\* C22: for every date with a month 1..12, both languages, and every pattern
\* that contains MMMM or MMM, the output of formatBsDate and of formatAdDate
\* contains the month name (its first three characters for MMM) letter for
\* letter: no letter of the expanded name is taken for a numeric token.
MonthNameNotRematched ==
    (FormattedBs \/ FormattedAd) =>
        LET name == IF fmtCall.fn = "formatAdDate"
                        THEN AD_MONTHS[fmtCall.date.month]
                        ELSE NEPALI_MONTHS[fmtCall.language][fmtCall.date.month]
        IN  /\ fmtResult.status = "ok"
            /\ 3 \in TokensOf(fmtCall.format) => Contains(fmtResult.str, name)
            /\ 4 \in TokensOf(fmtCall.format) =>
                  Contains(fmtResult.str, SubSeq(name, 1, 3))

\* 'M MMMM' of month 10 in English keeps the M of Magh.
MonthNameWitness ==
    /\ FormattedBs
    /\ fmtCall.format = M \o <<",", " ">> \o MMMM
    /\ fmtCall.language = "en"
    /\ fmtCall.date.month = 10
    /\ fmtResult.str = <<"1", "0", ",", " ", "M", "a", "g", "h">>

---------------------------------------------------------------------------
(* Stepping loops *)

RECURSIVE BsDaysBefore(_, _)
\* Days of year y of the calendar table before its month m.
BsDaysBefore(y, m) ==
    IF m <= 1 THEN 0 ELSE BsDaysBefore(y, m - 1) + BS_CALENDAR_DATA[y][m - 1]

\* Days from the first day of the calendar table to day d of a month of the table,
\* or to the first day after the table.
BsOffset(d) == TableDays(d.year - 1) + BsDaysBefore(d.year, d.month) + d.day - 1

\* A stepping loop is at its loop test.
InLoop == pc \in {"bsToAd", "adToBs"}

\* Days between the loop's starting date and its current date c.
Advanced(c) == IF pc = "bsToAd" THEN AdOffset(c) ELSE BsOffset(c)

\* The day of c lies within its month of the calendar the loop walks.
DayInMonth(c) == IF pc = "bsToAd" THEN RealGregorian(c) ELSE ValidBs(c)

\* What every iteration keeps, thrown or not: the count goes down and stays
\* non-negative, the date moves forward, days advanced plus days remaining is the
\* initial offset.
IterationMovesForward ==
    /\ remainingDays' >= 0 /\ remainingDays' < remainingDays
    /\ Earlier(cur, cur')
    /\ Advanced(cur') + remainingDays' = totalDays

\* C23 as stated: at the loop test with remainingDays > 0 an iteration runs, keeps
\* the loop invariants and the day within the current month, and the loop goes
\* on; the loop is left exactly when remainingDays is 0.
LoopsStepForward ==
    [][InLoop =>
          /\ remainingDays >= 0 /\ DayInMonth(cur)
          /\ Advanced(cur) + remainingDays = totalDays
          /\ IF remainingDays > 0
                 THEN IterationMovesForward /\ DayInMonth(cur') /\ pc' = pc
                 ELSE pc' # pc /\ cur' = cur]_vars

\* C23: as above, except that an iteration of adToBs that rolls the year past
\* BS_MAX_YEAR leaves the loop with the overflow error, whatever remains; only
\* then is the current date outside the table.
LoopsStepForwardOrOverflow ==
    [][InLoop =>
          /\ remainingDays >= 0 /\ DayInMonth(cur)
          /\ Advanced(cur) + remainingDays = totalDays
          /\ IF remainingDays > 0
                 THEN /\ IterationMovesForward
                      /\ IF pc = "adToBs" /\ cur'.year > BS_MAX_YEAR
                             THEN /\ pc' = "done"
                                  /\ cur' = YMD(BS_MAX_YEAR + 1, 1, 1)
                                  /\ (IF stage = 1 THEN first' ELSE second')
                                        = Thrown("BsYearOverflow")
                             ELSE DayInMonth(cur') /\ pc' = pc
                 ELSE pc' # pc /\ cur' = cur]_vars

\* adToBs has left its loop by the overflow error with days still to go.
LoopOverflowWitness ==
    /\ call = "adToBs" /\ stage = 1 /\ pc = "done"
    /\ first = Thrown("BsYearOverflow")
    /\ cur = YMD(BS_MAX_YEAR + 1, 1, 1) /\ remainingDays > 0
    /\ BsOffset(cur) + remainingDays = totalDays

\* bsToAd is in its loop, past a year end, with days still to go.
LoopRunningWitness ==
    /\ pc = "bsToAd" /\ remainingDays > 0
    /\ cur.year > AD_REFERENCE.year /\ cur.day = 1

---------------------------------------------------------------------------
(* Results as value objects *)

\* The outcome of the call of fn in this behaviour: the first call, or the
\* inverse call chained to the other function.
OutcomeOf(fn) ==
    IF call = fn THEN first
    ELSE IF call \in {"bsToAd", "adToBs"} /\ stage = 2 THEN second
    ELSE Pending

\* C24: every date returned by adToBs is a valid BS date (isValidBsDate agrees),
\* and every date returned by bsToAd is a real Gregorian date, with 29 February
\* only in leap years.
ResultsAreValueObjects ==
    /\ OutcomeOf("adToBs").status = "ok" =>
          LET d == OutcomeOf("adToBs").date IN
          ValidBs(d) /\ isValidBsDate(d.year, d.month, d.day)
    /\ OutcomeOf("bsToAd").status = "ok" =>
          LET d == OutcomeOf("bsToAd").date IN
          /\ RealGregorian(d)
          /\ (d.month = 2 /\ d.day = 29) =>
                 (d.year % 4 = 0 /\ d.year % 100 # 0) \/ d.year % 400 = 0

\* bsToAd has returned the last day of February of a year that is not a leap
\* year, and adToBs has returned a date for it.
ResultsWitness ==
    /\ call = "bsToAd" /\ pc = "done" /\ stage = 2
    /\ first.status = "ok" /\ first.date.month = 2 /\ first.date.day = 28
    /\ first.date.year % 4 # 0
    /\ second.status = "ok" /\ second.date = input

---------------------------------------------------------------------------
(* Anchor pair *)

---------------------------------------------------------------------------
(* Consecutive days *)

\* The day after the real Gregorian day d.
NextGregorianDay(d) ==
    IF d.day < GregorianLength(d.year, d.month) THEN YMD(d.year, d.month, d.day + 1)
    ELSE IF d.month < 12 THEN YMD(d.year, d.month + 1, 1)
    ELSE YMD(d.year + 1, 1, 1)

\* C26: for every valid BS date whose next day is valid, bsToAd of the next day
\* is the Gregorian day right after bsToAd of the date; and the AD day bsToAd
\* returns lies as many days after AD_REFERENCE as the date after the first
\* day of the table, so bsToAd keeps the order and is injective.
BsToAdKeepsConsecutiveDays ==
    /\ (call = "bsToAdNext" /\ pc = "done" /\ ValidBs(NextBsDay(input)))
          => /\ first.status = "ok" /\ second.status = "ok"
             /\ second.date = NextGregorianDay(first.date)
             /\ Earlier(first.date, second.date)
    /\ (call \in {"bsToAd", "bsToAdNext"} /\ ValidBs(input) /\ FirstCompleted)
          => AdOffset(first.date) = BsOffset(input)

\* The last day of a BS year went to 13 April and the next day, the first of
\* the next BS year, to 14 April.
ConsecutiveDaysWitness ==
    /\ call = "bsToAdNext" /\ pc = "done"
    /\ input.month = 12 /\ NextBsDay(input) = YMD(BS_MIN_YEAR + 1, 1, 1)
    /\ first.status = "ok" /\ second.status = "ok"
    /\ second.date = NextGregorianDay(first.date)

---------------------------------------------------------------------------
(* Range selection *)

\* The range is empty, or has its start, and a complete range is in order.
RangeOrdered(range) ==
    /\ Truthy(range.to) => Truthy(range.from)
    /\ (Truthy(range.from) /\ Truthy(range.to)) => ~Earlier(range.to[1], range.from[1])

\* An accepted day click of a DateRangePicker, seen as a step: the clicked day
\* is a day of the viewed month.
RangeClickStep ==
    LET Clicked(d) == d.year = viewDate.year /\ d.month = viewDate.month
    IN  (/\ props.component = "DateRangePicker"
         /\ lastEvent'.action = "dayClick"
         /\ Truthy(lastEvent'.reported))
          => /\ value' = lastEvent'.reported[1]
             /\ Truthy(value'.from)
             /\ IF ~Truthy(value.from) \/ Truthy(value.to)
                    THEN ~Truthy(value'.to) /\ Clicked(value'.from[1])
                    ELSE /\ Truthy(value'.to)
                         /\ \/ value'.from = value.from /\ Clicked(value'.to[1])
                            \/ value'.to = value.from /\ Clicked(value'.from[1])

\* C27: in range mode, with every emitted range passed back as selectedRange, the
\* range starts empty, has its from after every accepted click, is in order
\* whenever it is complete (a second click before from becomes the start), and
\* a click on a complete range starts a new range holding the clicked day only.
RangeStaysOrdered ==
    /\ [](props.component = "DateRangePicker" => RangeOrdered(value))
    /\ [][RangeClickStep]_vars

\* A range completed in order while the popover stays open: its start is the
\* earlier of the two clicked days.
RangeWitness ==
    /\ props.component = "DateRangePicker" /\ ~props.closeOnSelect
    /\ lastEvent.action = "dayClick" /\ open
    /\ Truthy(value.from) /\ Truthy(value.to)
    /\ Earlier(value.from[1], value.to[1])
    /\ value.from[1].month # value.to[1].month

---------------------------------------------------------------------------
(* Viewed month *)

\* Month (year, month) of view is before that of d.
MonthBefore(view, d) ==
    view.year < d.year \/ (view.year = d.year /\ view.month < d.month)

\* C28: whatever the initial view and the navigation (previous and next month,
\* month and year dropdowns), the month an open Calendar shows has a month in
\* 1..12 and a year within [BS_MIN_YEAR, BS_MAX_YEAR], lies within the months of
\* minDate and maxDate when those are set, and getDaysInBsMonth of it does not
\* throw.
ViewedMonthExists ==
    open =>
        /\ viewDate.month \in 1..12
        /\ viewDate.year >= BS_MIN_YEAR /\ viewDate.year <= BS_MAX_YEAR
        /\ Truthy(props.minDate) => ~MonthBefore(viewDate, props.minDate[1])
        /\ Truthy(props.maxDate) => ~MonthBefore(props.maxDate[1], viewDate)
        /\ getDaysInBsMonth(viewDate.year, viewDate.month).status = "ok"

\* The part that holds: the month number stays in 1..12.
ViewedMonthNumberExists == open => viewDate.month \in 1..12

\* The render of the viewed month throws.
ViewedMonthThrows ==
    open /\ getDaysInBsMonth(viewDate.year, viewDate.month).status # "ok"

---------------------------------------------------------------------------
(***************************************************************************)
(* The legacy popover.  NumPopovers of them are mounted under one parent,  *)
(* numbered in tree order.  Every <Popover open onOpenChange> is           *)
(* controlled by a component that holds its open state: a component of    *)
(* its own (as NepaliDatePicker is) or the common parent.  A state change  *)
(* re-renders the component that holds                                     *)
(* the state, with everything below it, in tree order.  An event handler,  *)
(* the render it causes and the effects of that render run to completion   *)
(* before the next event is handled.                                       *)
(***************************************************************************)

NumPopovers == 3

PopoverIds == 1..NumPopovers

\* The context and the Popovers, as a value the render steps transform;
\* effects: the PopoverContents whose position effect is due.
Rendering == [ctx |-> popoverContext, pops |-> popovers, effects |-> {}]

\* PopoverContent renders null unless open (as it read it) and position is set.
Shown(pops, p) == pops[p].content.open /\ pops[p].position

\* The Popovers re-rendered when the open states of the Popovers in changed
\* change: those Popovers, and all of them if one of the states is the parent's.
Rerendered(changed) ==
    IF \E p \in changed : composition[p] = "parent" THEN PopoverIds ELSE changed

\* One render pass over the Popovers in rendered, in tree order: Popover p renders
\* PopoverContextProvider, which assigns popoverContext = value; then
\* PopoverTrigger and PopoverContent of p call usePopoverContext().  The position
\* effect of a PopoverContent is due when the open flag it read has changed.
RenderPass(S, newOpen, rendered) ==
    [ctx |-> IF rendered = {} THEN S.ctx
             ELSE LET last == CHOOSE p \in rendered : \A q \in rendered : q <= p
                  IN  Ctx(last, newOpen[last]),
     pops |-> [p \in DOMAIN S.pops |->
                  IF p \in rendered
                      THEN [open |-> newOpen[p],
                            trigger |-> Ctx(p, newOpen[p]),
                            content |-> Ctx(p, newOpen[p]),
                            position |-> S.pops[p].position]
                      ELSE S.pops[p]],
     effects |-> { p \in rendered : newOpen[p] # S.pops[p].content.open }]

RECURSIVE FlushEffects(_)
\* PopoverContent's effect: if (open && triggerRef.current) setPosition({...})
\* else if (!open) setPosition(null).  A changed position re-renders that
\* PopoverContent alone, which calls usePopoverContext() again.
FlushEffects(S) ==
    IF S.effects = {} THEN S
    ELSE LET rerender == { p \in S.effects : S.pops[p].content.open \/ S.pops[p].position }
         IN  FlushEffects(
                 [ctx |-> S.ctx,
                  pops |-> [p \in DOMAIN S.pops |->
                               IF p \in S.effects
                                   THEN [S.pops[p] EXCEPT
                                            !.position = S.pops[p].content.open,
                                            !.content = IF p \in rerender THEN S.ctx ELSE @]
                                   ELSE S.pops[p]],
                  effects |-> { p \in rerender : S.ctx.open # S.pops[p].content.open }])

\* The open states after setOpen(false) of the Popovers in closing, rendered.
Close(S, closing) ==
    FlushEffects(RenderPass(S, [p \in DOMAIN S.pops |-> S.pops[p].open /\ p \notin closing],
                            Rerendered(closing)))

\* Popover.handleClickOutside of every Popover, for a mousedown on the trigger of
\* Popover target (0: outside every trigger); the target is in no popover content.
\* document.querySelector('[data-popover-content]') finds a content if one is shown.
handleClickOutside(S, target) ==
    Close(S, { p \in DOMAIN S.pops :
                  /\ S.pops[p].open
                  /\ p # target
                  /\ \E q \in DOMAIN S.pops : Shown(S.pops, q) })

\* PopoverTrigger.handleClick, with the open and setOpen its last render read:
\* setOpen(!open).
handleClick(S, p) ==
    LET ctx == S.pops[p].trigger
        newOpen == [q \in DOMAIN S.pops |->
                       IF q = ctx.owner THEN ~ctx.open ELSE S.pops[q].open]
        changed == { q \in DOMAIN S.pops : newOpen[q] # S.pops[q].open }
    IN  FlushEffects(RenderPass(S, newOpen, Rerendered(changed)))

Commit(S) == popoverContext' = S.ctx /\ popovers' = S.pops

\* A click on the trigger of Popover p: the mousedown, then the click.
LegacyTriggerClick ==
    /\ composition # <<>>
    /\ \E p \in PopoverIds : Commit(handleClick(handleClickOutside(Rendering, p), p))
    /\ UNCHANGED <<composition, convVars, cmpVars, fmtVars, pickerVars>>

\* A mousedown outside every trigger and every popover content.
LegacyClickOutside ==
    /\ composition # <<>>
    /\ Commit(handleClickOutside(Rendering, 0))
    /\ UNCHANGED <<composition, convVars, cmpVars, fmtVars, pickerVars>>

\* Popover.handleEscape of every Popover: if (e.key === 'Escape' && open) setOpen(false).
LegacyEscape ==
    /\ composition # <<>>
    /\ Commit(Close(Rendering, { p \in PopoverIds : popovers[p].open }))
    /\ UNCHANGED <<composition, convVars, cmpVars, fmtVars, pickerVars>>

\* The parent re-renders (a value reported through onChange, say): every Popover
\* is rendered again, in tree order.
ParentRender ==
    /\ composition # <<>>
    /\ Commit(FlushEffects(RenderPass(Rendering, [p \in PopoverIds |-> popovers[p].open],
                                      PopoverIds)))
    /\ UNCHANGED <<composition, convVars, cmpVars, fmtVars, pickerVars>>

Compositions == [PopoverIds -> {"picker", "parent"}]

\* After the first render of the parent: every Popover closed.
InitLegacy ==
    /\ pc = "idle"
    /\ call = "none"
    /\ input = NoDate
    /\ stage = 1
    /\ cur = NoDate
    /\ remainingDays = 0
    /\ totalDays = 0
    /\ first = Pending
    /\ second = Pending
    /\ cmpArgs = NoArgs
    /\ cmpRes = NoRes
    /\ FmtIdle
    /\ PickerUnmounted
    /\ composition \in Compositions
    /\ popovers = [p \in PopoverIds |-> [open |-> FALSE, trigger |-> Ctx(p, FALSE),
                                       content |-> Ctx(p, FALSE), position |-> FALSE]]
    /\ popoverContext = Ctx(NumPopovers, FALSE)

NextLegacy ==
    \/ LegacyTriggerClick
    \/ LegacyClickOutside
    \/ LegacyEscape
    \/ ParentRender

SpecLegacy == InitLegacy /\ [][NextLegacy]_vars

\* C29: every PopoverTrigger and PopoverContent holds the open flag and the
\* setOpen of its own Popover, and the content of a Popover is shown exactly
\* when that Popover is open.
EachReadsOwnContext ==
    \A p \in DOMAIN popovers :
        /\ popovers[p].trigger = Ctx(p, popovers[p].open)
        /\ popovers[p].content = Ctx(p, popovers[p].open)
        /\ Shown(popovers, p) <=> popovers[p].open

\* The part that holds: the triggers.
TriggersReadOwnContext ==
    \A p \in DOMAIN popovers : popovers[p].trigger = Ctx(p, popovers[p].open)

\* A Popover is open and its content is not shown.
OpenAndNotShown ==
    \E p \in DOMAIN popovers : popovers[p].open /\ ~Shown(popovers, p)

---------------------------------------------------------------------------
(* First weekday of a month *)

\* Month (d.year, d.month) is a month of the calendar table.
SupportedMonth(d) ==
    /\ d.year >= BS_MIN_YEAR /\ d.year <= BS_MAX_YEAR
    /\ d.month >= 1 /\ d.month <= 12

\* o is a weekday getFirstDayOfBsMonth has returned.
WeekdayReturned(o) == o.status = "ok" /\ o.date = NoDate

\* C30: getFirstDayOfBsMonth returns a value in 0..6 for every month of the
\* table, and for every month whose next month is in the table the first
\* weekday of the next month is the first weekday of the month plus the length
\* of the month, modulo 7.
FirstDaysLineUp ==
    (call = "getFirstDayOfBsMonth" /\ pc = "done")
        => /\ SupportedMonth(input) => first.status = "ok"
           /\ WeekdayReturned(first) => first.num \in 0..6
           /\ (stage = 2 /\ SupportedMonth(NextBsMonth(input)))
                 => /\ second.status = "ok"
                    /\ WeekdayReturned(second)
                          => second.num
                                = (first.num + BS_CALENDAR_DATA[input.year][input.month]) % 7

\* The first weekdays of the last month of a BS year and of the first month of
\* the next year have been returned and line up.
FirstDaysWitness ==
    /\ call = "getFirstDayOfBsMonth" /\ pc = "done" /\ stage = 2
    /\ input.year = BS_MIN_YEAR /\ input.month = 12
    /\ WeekdayReturned(first) /\ WeekdayReturned(second)
    /\ second.num = (first.num + BS_CALENDAR_DATA[input.year][input.month]) % 7
============================================================================
